---- MODULE Spec2Model ----
(***************************************************************************)
(* Model of backend/worker.py of SentinelQA: the AI-driven test run        *)
(* (AuthenticationAwareWorker.run_test), the decision oracle               *)
(* (AIVisionController.analyze_page_and_get_action) and the page-state     *)
(* heuristics (PageStateTracker).                                          *)
(*                                                                         *)
(* Environment assumptions, stated once:                                   *)
(*  - the browser page stays open for the whole run, so the pure timers    *)
(*    page.wait_for_timeout(..) never raise;                               *)
(*  - Playwright errors carry a non-empty message, so str(e) is truthy;    *)
(*  - closing the context and the browser after the loop does not raise.   *)
(* Strings are abstracted to tokens; a formatted log line is abstracted to *)
(* a record naming its kind and the step during which it was appended.     *)
(***************************************************************************)
EXTENDS Integers, Sequences, FiniteSets, TLC

VARIABLES
    pc,                   \* position in run_test / in the oracle call
    ai_enabled,           \* self.ai_controller and instruction
    error,                \* run_test local error
    execution_log,        \* run_test local execution_log
    locals_bound,         \* the loop locals of lines 1267-1288 are assigned
    step_count,
    action_history,
    test_failed,
    verifications_passed,
    verifications_total,
    failure_info,
    failure_captured,
    action_data,          \* what analyze_page_and_get_action returned
    previous_url,         \* state_tracker.previous_url
    page_url,             \* page.url
    page_html,            \* the page's document
    oracle_calls,         \* number of calls of analyze_page_and_get_action
    oracle_always_failed, \* every oracle call of the run degraded
    exec_calls,           \* number of calls of execute_action
    evidence_captures,    \* number of calls of capture_failure_evidence
    context_closes,       \* number of calls of context.close()
    result,               \* the dict returned by run_test
    oracle_raw,           \* what the OpenAI call produced (oracle specification)
    healed_selectors,     \* healing_engine.healed_selectors
    healing_history,      \* healing_engine.healing_history
    healing_calls,        \* number of calls of find_element_with_healing
    page,                 \* the elements of the page, in document order
    unit_in,              \* arguments of the method called on its own
    unit_out              \* what that method returned

unitVars == <<healed_selectors, healing_history, healing_calls, page,
              unit_in, unit_out>>

vars == <<pc, ai_enabled, error, execution_log, locals_bound, step_count,
          action_history, test_failed, verifications_passed,
          verifications_total, failure_info, failure_captured, action_data,
          previous_url, page_url, page_html, oracle_calls, oracle_always_failed,
          exec_calls, evidence_captures, context_closes, result, oracle_raw, unitVars>>

(***************************************************************************)
(* Bounds of the model.                                                    *)
(***************************************************************************)
\* longest oracle response, in tokens
MaxLen == 3
\* verifications the oracle asks for in one run
MaxVerify == 2

\* worker.py:1267
max_steps == 10

(***************************************************************************)
(* The oracle's raw response.  The text of a response is a sequence of     *)
(* tokens: a code fence, the word json, one JSON document, other prose and *)
(* white space.                                                            *)
(***************************************************************************)
\* the three-backquote code fence of Markdown
Fence == "fence"
Tokens == {Fence, "json", "{}", "x", " "}

Contents == UNION {[1..n -> Tokens] : n \in 0..MaxLen}

\* what json.loads makes of the document token
ActionKinds == {"click", "type", "press", "navigate", "wait", "verify", "complete"}

DocActions == ActionKinds \cup {"bogus", "absent"}

NonDict == [is_dict |-> FALSE, action |-> "absent", selector |-> "",
            value |-> "", reasoning |-> "text"]

Docs == [is_dict : {TRUE}, action : DocActions, selector : {"", "#btn"},
         value : {"", "v"}, reasoning : {"text", "nonstring"}] \cup {NonDict}

\* kind: the create() call raises / message.content is None / text returned
Responses == [kind : {"raise", "null"}, content : {<<>>}, doc : {NonDict}]
             \cup [kind : {"content"}, content : Contents, doc : Docs]

Min(S) == CHOOSE x \in S : \A y \in S : x <= y

RECURSIVE LStrip(_)
LStrip(s) == IF s # <<>> /\ Head(s) = " " THEN LStrip(Tail(s)) ELSE s

RECURSIVE RStrip(_)
RStrip(s) == IF s # <<>> /\ s[Len(s)] = " "
             THEN RStrip(SubSeq(s, 1, Len(s) - 1)) ELSE s

\* str.strip()
Strip(s) == RStrip(LStrip(s))

FencePositions(s) == {i \in 1..Len(s) : s[i] = Fence}

FenceJsonPositions(s) ==
    {i \in 1..(Len(s) - 1) : s[i] = Fence /\ s[i + 1] = "json"}

\* s.split(fence)[0]
BeforeFence(s) ==
    IF FencePositions(s) = {} THEN s
    ELSE SubSeq(s, 1, Min(FencePositions(s)) - 1)

\* lines 655-661: strip, then take the text of the first fenced block
ExtractJson(content) ==
    LET c == Strip(content) IN
    IF FenceJsonPositions(c) # {}
    THEN Strip(BeforeFence(SubSeq(c, Min(FenceJsonPositions(c)) + 2, Len(c))))
    ELSE IF FencePositions(c) # {}
    THEN Strip(BeforeFence(SubSeq(c, Min(FencePositions(c)) + 1, Len(c))))
    ELSE c

\* json.loads succeeds on exactly one document, white space around it allowed
JsonLoads(text) == Strip(text) = <<"{}">>

SyntheticWait(why) ==
    [is_dict |-> TRUE, action |-> "wait", selector |-> "", value |-> "",
     reasoning |-> why]

\* the try body of lines 630-666: the exception it ends with, or its value
AnalyzeTry(raw) ==
    IF raw.kind = "raise" THEN [exc |-> "APIError", value |-> NonDict]
    ELSE IF raw.kind = "null" THEN [exc |-> "AttributeError", value |-> NonDict]
    ELSE IF JsonLoads(ExtractJson(raw.content))
    THEN [exc |-> "none", value |-> raw.doc]
    ELSE [exc |-> "JSONDecodeError", value |-> NonDict]

\* the handlers without the catch-all clause of lines 676-683
AnalyzeHandlersJsonOnly(exc) ==
    IF exc = "JSONDecodeError"
    THEN [raised |-> FALSE, data |-> SyntheticWait("AI response was not valid JSON")]
    ELSE [raised |-> TRUE, data |-> NonDict]

\* the except clauses of lines 668-683
AnalyzeHandlers(exc) ==
    IF exc = "JSONDecodeError"
    THEN [raised |-> FALSE, data |-> SyntheticWait("AI response was not valid JSON")]
    ELSE [raised |-> FALSE, data |-> SyntheticWait("AI request failed")]

analyze_page_and_get_action(raw) ==
    LET t == AnalyzeTry(raw) IN
    IF t.exc = "none" THEN [raised |-> FALSE, data |-> t.value]
    ELSE AnalyzeHandlers(t.exc)

FailureReasons == {"AI response was not valid JSON", "AI request failed"}

IsSynthetic(ad) == ad.is_dict /\ ad.reasoning \in FailureReasons

(***************************************************************************)
(* PageStateTracker.  A URL is the record urlparse makes of it; a document *)
(* is a sequence of text chunks.                                           *)
(***************************************************************************)
NoUrl == [netloc |-> "", path |-> "", query |-> "", fragment |-> ""]

TargetUrl == [netloc |-> "x.com", path |-> "/", query |-> "", fragment |-> ""]

ThanksUrl == [netloc |-> "x.com", path |-> "/thank-you", query |-> "",
              fragment |-> ""]

\* a variant that compares the paths before the hosts
detect_navigation_path_first(prev, current_url) ==
    IF prev = NoUrl
    THEN [navigated |-> FALSE, desc |-> "", previous_url |-> current_url]
    ELSE IF prev.path # current_url.path
    THEN [navigated |-> TRUE, desc |-> "Path changed",
          previous_url |-> current_url]
    ELSE IF prev.netloc # current_url.netloc
    THEN [navigated |-> TRUE, desc |-> "Domain changed",
          previous_url |-> current_url]
    ELSE IF prev.query # current_url.query
            \/ prev.fragment # current_url.fragment
    THEN [navigated |-> FALSE,
          desc |-> "URL params changed (possible state change)",
          previous_url |-> current_url]
    ELSE [navigated |-> FALSE, desc |-> "", previous_url |-> prev]

\* a variant that keeps the old baseline when only the query or the
\* fragment changed
detect_navigation_params_keep_baseline(prev, current_url) ==
    IF prev = NoUrl
    THEN [navigated |-> FALSE, desc |-> "", previous_url |-> current_url]
    ELSE IF prev.netloc # current_url.netloc
    THEN [navigated |-> TRUE, desc |-> "Domain changed",
          previous_url |-> current_url]
    ELSE IF prev.path # current_url.path
    THEN [navigated |-> TRUE, desc |-> "Path changed",
          previous_url |-> current_url]
    ELSE IF prev.query # current_url.query
            \/ prev.fragment # current_url.fragment
    THEN [navigated |-> FALSE,
          desc |-> "URL params changed (possible state change)",
          previous_url |-> prev]
    ELSE [navigated |-> FALSE, desc |-> "", previous_url |-> prev]

\* lines 36-65; previous_url is the tracker's baseline after the call
detect_navigation(prev, current_url) ==
    IF prev = NoUrl
    THEN [navigated |-> FALSE, desc |-> "", previous_url |-> current_url]
    ELSE IF prev.netloc # current_url.netloc
    THEN [navigated |-> TRUE, desc |-> "Domain changed",
          previous_url |-> current_url]
    ELSE IF prev.path # current_url.path
    THEN [navigated |-> TRUE, desc |-> "Path changed",
          previous_url |-> current_url]
    ELSE IF prev.query # current_url.query
            \/ prev.fragment # current_url.fragment
    THEN [navigated |-> FALSE,
          desc |-> "URL params changed (possible state change)",
          previous_url |-> current_url]
    ELSE [navigated |-> FALSE, desc |-> "", previous_url |-> prev]

\* lines 29-34
success_keywords ==
    <<"success", "successfully", "sent", "submitted", "thank you", "thanks",
      "confirmation", "confirmed", "check your email", "password reset email",
      "reset link", "completed", "done", "congratulations">>

\* the text chunks documents are made of, and the keywords that are
\* substrings of each chunk once lower-cased
Chunks == {"x", "Thank You!", "Message Sent Successfully", "Done"}

KeywordsIn(chunk) ==
    CASE chunk = "Thank You!" -> {"thank you"}
      [] chunk = "Message Sent Successfully" -> {"success", "successfully", "sent"}
      [] chunk = "Done" -> {"done"}
      [] OTHER -> {}

Occurs(keyword, html) == \E i \in DOMAIN html : keyword \in KeywordsIn(html[i])

\* a variant that returns the keyword occurring first in the document
detect_success_message_first_occurrence(html) ==
    LET where == {i \in DOMAIN html : KeywordsIn(html[i]) # {}} IN
    IF where = {} THEN [found |-> FALSE, keyword |-> "None"]
    ELSE LET hits == {k \in DOMAIN success_keywords :
                        success_keywords[k] \in KeywordsIn(html[Min(where)])}
         IN  [found |-> TRUE, keyword |-> success_keywords[Min(hits)]]

\* lines 67-80
detect_success_message(html) ==
    LET hits == {k \in DOMAIN success_keywords : Occurs(success_keywords[k], html)} IN
    IF hits = {} THEN [found |-> FALSE, keyword |-> "None"]
    ELSE [found |-> TRUE, keyword |-> success_keywords[Min(hits)]]

PlainHtml == <<"x">>

ThanksHtml == <<"Thank You!">>

(***************************************************************************)
(* run_test: data.                                                         *)
(***************************************************************************)
Entry(tag, n) == [tag |-> tag, n |-> n]

\* the dict of lines 1279-1287, and None
NoFailure == [step |-> 0, action |-> "None", selector |-> "None",
              reason |-> "None"]

NoResult == [status |-> "none", bug_summary |-> "None",
             verifications |-> [total |-> 0, passed |-> 0, failed |-> 0],
             failure_info |-> NoFailure,
             plain_english_explanation |-> "None"]

NoAction == [is_dict |-> TRUE, action |-> "absent", selector |-> "",
             value |-> "", reasoning |-> "text"]

\* lines 1140-1147 and 1179: the evidence of a failing step
capture_failure_evidence(step, ad) ==
    [step |-> step,
     action |-> IF ad.action = "absent" THEN "unknown" ELSE ad.action,
     selector |-> ad.selector,
     reason |-> "None"]

\* line 1327: action_data.get("action", "unknown")
RunAction(ad) == IF ad.action = "absent" THEN "unknown" ELSE ad.action

\* execute_action with the default of run_test
ExecActionDefaultUnknown(ad) ==
    IF ad.action = "absent" THEN "unknown" ELSE ad.action

\* line 757: action_data.get("action", "wait")
ExecAction(ad) == IF ad.action = "absent" THEN "wait" ELSE ad.action

\* execute_action whose plain wait can fail like the other actions
execute_action_any_may_fail(ad) ==
    CASE ExecAction(ad) \in {"click", "type", "navigate", "press", "wait"} -> BOOLEAN
      [] ExecAction(ad) = "complete" -> {TRUE}
      [] OTHER -> {FALSE}

\* execute_action, lines 755-962: the values it can return for a
\* non-verify action, the page deciding between them
execute_action(ad) ==
    CASE ExecAction(ad) \in {"click", "type", "navigate", "press"} -> BOOLEAN
      [] ExecAction(ad) = "wait" -> IF ad.selector # "" THEN BOOLEAN ELSE {TRUE}
      [] ExecAction(ad) = "complete" -> {TRUE}
      [] OTHER -> {FALSE}

\* execute_verification, lines 964-1134: always a result dict
execute_verification(ad) == [passed : BOOLEAN, reason : {"verify_reason"}]

\* line 1368: the line appended to action_history after a verification
VerifyHistory(passed) == IF passed THEN "verify PASS" ELSE "verify FAIL"

\* line 1381: the line appended after a successful action
ActionHistory(ad) == "action"

\* the oracle's responses during a run
RunContents == {<<"{}">>, <<"x">>, <<Fence, "json", "{}">>}

RunDocs ==
    {d \in Docs :
        \/ ~d.is_dict
        \/ /\ d.value = "v"
           /\ d.selector = "" <=> d.action \in {"wait", "complete", "absent"}
           /\ d.reasoning = "nonstring" => d.action = "click"}
    \cup {[is_dict |-> TRUE, action |-> "wait", selector |-> "#btn",
           value |-> "v", reasoning |-> "text"],
          [is_dict |-> TRUE, action |-> "absent", selector |-> "#btn",
           value |-> "v", reasoning |-> "text"]}

RunResponses == {r \in Responses :
                    r.kind = "content" =>
                        r.content \in RunContents /\ r.doc \in RunDocs}

\* lines 115-117 and 701: a fresh healing engine; no method is being
\* exercised on its own
NoCall == [method |-> "none"]

UnitAtRest ==
    /\ healed_selectors = <<>>
    /\ healing_history = <<>>
    /\ healing_calls = 0
    /\ page = <<>>
    /\ unit_in = NoCall
    /\ unit_out = NoCall

(***************************************************************************)
(* run_test: control flow.                                                 *)
(***************************************************************************)
runVars == <<ai_enabled, error, execution_log, locals_bound, step_count,
             action_history, test_failed, verifications_passed,
             verifications_total, failure_info, failure_captured,
             previous_url, page_url, page_html, oracle_calls, oracle_always_failed,
             exec_calls, evidence_captures, context_closes, result>>

Init ==
    /\ pc = "start"
    /\ ai_enabled \in BOOLEAN
    /\ error = "None"
    /\ execution_log = <<>>
    /\ locals_bound = FALSE
    /\ step_count = 0
    /\ action_history = <<>>
    /\ test_failed = FALSE
    /\ verifications_passed = 0
    /\ verifications_total = 0
    /\ failure_info = NoFailure
    /\ failure_captured = FALSE
    /\ action_data = NoAction
    /\ previous_url = NoUrl
    /\ page_url = NoUrl
    /\ page_html = <<>>
    /\ oracle_calls = 0
    /\ oracle_always_failed = TRUE
    /\ exec_calls = 0
    /\ evidence_captures = 0
    /\ context_closes = 0
    /\ result = NoResult
    /\ oracle_raw = [kind |-> "raise", content |-> <<>>, doc |-> NonDict]
    /\ UnitAtRest

\* lines 1255-1258 without the raise of line 1258: the run goes on
NavigateFailsNoRaise ==
    /\ pc = "start"
    /\ error' = "goto error"
    /\ locals_bound' = ai_enabled
    /\ pc' = IF ai_enabled THEN "loop" ELSE "closing"
    /\ page_url' = TargetUrl
    /\ page_html' = PlainHtml
    /\ UNCHANGED <<ai_enabled, execution_log, step_count, action_history,
                   test_failed, verifications_passed, verifications_total,
                   failure_info, failure_captured, action_data, previous_url,
                   oracle_calls, oracle_always_failed, exec_calls,
                   evidence_captures, context_closes, result, oracle_raw, unitVars>>

\* lines 1245-1260 and 1412-1415: page.goto or page.title raises
NavigateFails ==
    /\ pc = "start"
    /\ error' \in {"goto error", "title error"}
    /\ execution_log' = Append(execution_log, Entry("error", 0))
    /\ pc' = "closing"
    /\ UNCHANGED <<ai_enabled, locals_bound, step_count, action_history,
                   test_failed, verifications_passed, verifications_total,
                   failure_info, failure_captured, action_data, previous_url,
                   page_url, page_html, oracle_calls, oracle_always_failed,
                   exec_calls, evidence_captures, context_closes, result,
                   oracle_raw, unitVars>>

\* lines 1245-1288 and 1406-1410: the page loads
NavigateOk ==
    /\ pc = "start"
    /\ page_url' = TargetUrl
    /\ page_html' = ThanksHtml
    /\ locals_bound' = ai_enabled
    /\ execution_log' =
         <<Entry("navigated", 0), Entry("title", 0)>>
         \o (IF ai_enabled THEN <<>> ELSE <<Entry("no_ai", 0)>>)
    /\ pc' = IF ai_enabled THEN "loop" ELSE "closing"
    /\ UNCHANGED <<ai_enabled, error, step_count, action_history, test_failed,
                   verifications_passed, verifications_total, failure_info,
                   failure_captured, action_data, previous_url, oracle_calls,
                   oracle_always_failed, exec_calls, evidence_captures,
                   context_closes, result, oracle_raw, unitVars>>

\* the loop test with <= for <
LoopConditionInclusive(n) == n <= max_steps

\* line 1290
LoopCondition(n) == n < max_steps

\* a handler that marks the run as failed
FailedAfterStepErrorSet(failed) == TRUE

\* lines 1399-1402: the handler logs and breaks; test_failed keeps the value
\* it had before the exception
FailedAfterStepError(failed) == failed

\* the handler of lines 1399-1402 without its break
AfterStepErrorContinue == "loop"

\* line 1402: break
AfterStepError == "after_loop"

\* complete without the break of line 1334
AfterCompleteContinue == "loop"

\* line 1334: break
AfterComplete == "after_loop"

\* a failed verification that ends the loop
AfterVerificationBreak(passed) == IF passed THEN "loop" ELSE "after_loop"

\* lines 1337-1371 have no break; line 1397 ends the iteration
AfterVerification(passed) == "loop"

\* a failed action without the break of line 1394
AfterActionContinue(ok) == "loop"

\* line 1394: break after a failed action; line 1397 otherwise
AfterAction(ok) == IF ok THEN "loop" ELSE "after_loop"

\* lines 1301-1315: the detectors' lines in the log
DetectionLog(nav, succ, n) ==
    (IF nav.navigated THEN <<Entry("navigation", n)>> ELSE <<>>)
    \o (IF succ.found THEN <<Entry("success_found", n)>> ELSE <<>>)

\* detectors whose report of a navigation ends the loop from step 2 on
AfterDetectionChecksCompletion(nav, succ, n) ==
    IF nav.navigated /\ n >= 2 THEN "after_loop" ELSE "decide"

\* lines 1302-1315: the branches on the detectors' reports log and fall
\* through to the oracle call
AfterDetection(nav, succ, n) == "decide"

\* lines 1290-1315: a step starts, the page state is captured, the
\* detectors run; capture_page_state may raise (lines 1399-1402)
StartStep ==
    /\ pc = "loop"
    /\ LoopCondition(step_count)
    /\ step_count' = step_count + 1
    /\ \E captured \in BOOLEAN :
         IF captured
         THEN LET nav == detect_navigation(previous_url, page_url)
                  succ == detect_success_message(page_html) IN
              /\ previous_url' = nav.previous_url
              /\ execution_log' =
                   execution_log \o DetectionLog(nav, succ, step_count + 1)
              /\ pc' = AfterDetection(nav, succ, step_count + 1)
              /\ UNCHANGED test_failed
         ELSE /\ execution_log' =
                   Append(execution_log, Entry("step_error", step_count + 1))
              /\ pc' = AfterStepError
              /\ test_failed' = FailedAfterStepError(test_failed)
              /\ UNCHANGED previous_url
    /\ UNCHANGED <<ai_enabled, error, locals_bound, action_history,
                   verifications_passed, verifications_total,
                   failure_info, failure_captured, action_data, page_url,
                   page_html, oracle_calls, oracle_always_failed, exec_calls,
                   evidence_captures, context_closes, result, oracle_raw, unitVars>>

\* line 1290: the loop test fails
LoopExit ==
    /\ pc = "loop"
    /\ ~LoopCondition(step_count)
    /\ pc' = "after_loop"
    /\ UNCHANGED <<runVars, action_data, oracle_raw, unitVars>>

\* lines 1319-1324: the oracle is consulted
Consult(raw) ==
    /\ pc = "decide"
    /\ raw \in RunResponses
    /\ oracle_calls' = oracle_calls + 1
    /\ oracle_always_failed' =
         (oracle_always_failed /\ AnalyzeTry(raw).exc # "none")
    /\ action_data' = analyze_page_and_get_action(raw).data

\* lines 1319-1327 and 1399-1402: the oracle call raises, or its value is
\* not a dict and .get raises
StepOracleError ==
    \E raw \in RunResponses :
      LET r == analyze_page_and_get_action(raw) IN
      /\ Consult(raw)
      /\ r.raised \/ ~r.data.is_dict
      /\ execution_log' = Append(execution_log, Entry("step_error", step_count))
      /\ pc' = AfterStepError
      /\ test_failed' = FailedAfterStepError(test_failed)
      /\ UNCHANGED <<ai_enabled, error, locals_bound, step_count,
                     action_history, verifications_passed,
                     verifications_total, failure_info, failure_captured,
                     previous_url, page_url, page_html, exec_calls,
                     evidence_captures, context_closes, result, oracle_raw, unitVars>>

\* lines 1319-1334: the oracle answers complete
StepComplete ==
    \E raw \in RunResponses :
      LET r == analyze_page_and_get_action(raw) IN
      /\ Consult(raw)
      /\ ~r.raised /\ r.data.is_dict
      /\ RunAction(r.data) = "complete"
      /\ execution_log' = execution_log
            \o <<Entry("step", step_count), Entry("complete", step_count)>>
      /\ pc' = AfterComplete
      /\ UNCHANGED <<ai_enabled, error, locals_bound, step_count,
                     action_history, test_failed, verifications_passed,
                     verifications_total, failure_info, failure_captured,
                     previous_url, page_url, page_html, exec_calls,
                     evidence_captures, context_closes, result, oracle_raw, unitVars>>

\* evidence captured at every failure
CaptureAlways(captured) == TRUE

\* lines 1361 and 1388: if not failure_captured
CaptureNeeded(captured) == ~captured

\* lines 1360-1366 and 1387-1393
FailureInfoAfter(ad, reason) ==
    IF CaptureNeeded(failure_captured)
    THEN [capture_failure_evidence(step_count, ad) EXCEPT !.reason = reason]
    ELSE failure_info

EvidenceCapturesAfter ==
    IF CaptureNeeded(failure_captured)
    THEN evidence_captures + 1 ELSE evidence_captures

\* lines 1319-1329, 1337-1371 and 1397: the oracle asks for a verification
StepVerify ==
    \E raw \in RunResponses :
      LET r == analyze_page_and_get_action(raw)
          ad == r.data IN
      /\ Consult(raw)
      /\ ~r.raised /\ ad.is_dict
      /\ RunAction(ad) = "verify"
      /\ verifications_total < MaxVerify
      /\ \E vr \in execute_verification(ad) :
           /\ exec_calls' = exec_calls + 1
           /\ verifications_total' = verifications_total + 1
           /\ verifications_passed' =
                verifications_passed + (IF vr.passed THEN 1 ELSE 0)
           /\ execution_log' = execution_log
                \o <<Entry("step", step_count),
                     Entry(IF vr.passed THEN "verify_pass" ELSE "verify_fail",
                           step_count)>>
           /\ test_failed' = (test_failed \/ ~vr.passed)
           /\ failure_info' =
                IF vr.passed THEN failure_info
                ELSE FailureInfoAfter(ad, vr.reason)
           /\ failure_captured' = (failure_captured \/ ~vr.passed)
           /\ evidence_captures' =
                IF vr.passed THEN evidence_captures ELSE EvidenceCapturesAfter
           /\ action_history' = Append(action_history, VerifyHistory(vr.passed))
           /\ pc' = AfterVerification(vr.passed)
      /\ UNCHANGED <<ai_enabled, error, locals_bound, step_count,
                     previous_url, page_url, page_html, context_closes,
                     result, oracle_raw, unitVars>>

\* lines 1319-1329 and 1372-1402: any other action is executed
StepAction ==
    \E raw \in RunResponses :
      LET r == analyze_page_and_get_action(raw)
          ad == r.data IN
      /\ Consult(raw)
      /\ ~r.raised /\ ad.is_dict
      /\ RunAction(ad) \notin {"complete", "verify"}
      /\ exec_calls' = exec_calls + 1
      /\ \E ok \in execute_action(ad) :
           IF ok
           THEN /\ UNCHANGED <<page_url, page_html, failure_info, failure_captured,
                               evidence_captures>>
                /\ IF ad.reasoning = "nonstring"
                   THEN \* reasoning[:50] raises TypeError (line 1381)
                        /\ execution_log' = execution_log
                             \o <<Entry("step", step_count),
                                  Entry("executed", step_count),
                                  Entry("step_error", step_count)>>
                        /\ pc' = AfterStepError
                        /\ test_failed' = FailedAfterStepError(test_failed)
                        /\ UNCHANGED action_history
                   ELSE /\ execution_log' = execution_log
                             \o <<Entry("step", step_count),
                                  Entry("executed", step_count)>>
                        /\ UNCHANGED test_failed
                        /\ action_history' =
                             Append(action_history, ActionHistory(ad))
                        /\ pc' = AfterAction(TRUE)
           ELSE /\ execution_log' = execution_log
                     \o <<Entry("step", step_count),
                          Entry("failed", step_count)>>
                /\ test_failed' = TRUE
                /\ failure_info' = FailureInfoAfter(ad, "Failed to execute")
                /\ failure_captured' = TRUE
                /\ evidence_captures' = EvidenceCapturesAfter
                /\ pc' = AfterAction(FALSE)
                /\ UNCHANGED <<action_history, page_url, page_html>>
      /\ UNCHANGED <<ai_enabled, error, locals_bound, step_count,
                     verifications_passed, verifications_total, previous_url,
                     context_closes, result, oracle_raw, unitVars>>

\* the notice only beyond the ceiling
LimitReachedStrict(n) == n > max_steps

\* the notice only when the loop ran out of steps, not when step 10 ended
\* the loop itself
LimitReachedAfterLastStep(n) ==
    /\ n >= max_steps
    /\ \A i \in DOMAIN execution_log :
         execution_log[i].tag \notin {"complete", "failed", "step_error"}

\* line 1404
LimitReached(n) == n >= max_steps

\* lines 1404-1405
AfterLoop ==
    /\ pc = "after_loop"
    /\ execution_log' =
         IF LimitReached(step_count)
         THEN Append(execution_log, Entry("max_steps", step_count))
         ELSE execution_log
    /\ pc' = "closing"
    /\ UNCHANGED <<ai_enabled, error, locals_bound, step_count,
                   action_history, test_failed, verifications_passed,
                   verifications_total, failure_info, failure_captured,
                   action_data, previous_url, page_url, page_html,
                   oracle_calls, oracle_always_failed, exec_calls,
                   evidence_captures, context_closes, result, oracle_raw, unitVars>>

\* the context closed only when no error was recorded
CloseContextUnlessError ==
    /\ pc = "closing"
    /\ context_closes' = IF error = "None" THEN context_closes + 1
                         ELSE context_closes
    /\ pc' = "finish"
    /\ UNCHANGED <<ai_enabled, error, execution_log, locals_bound, step_count,
                   action_history, test_failed, verifications_passed,
                   verifications_total, failure_info, failure_captured,
                   action_data, previous_url, page_url, page_html,
                   oracle_calls, oracle_always_failed, exec_calls,
                   evidence_captures, result, oracle_raw, unitVars>>

\* lines 1417-1431
CloseContext ==
    /\ pc = "closing"
    /\ context_closes' = context_closes + 1
    /\ pc' = "finish"
    /\ UNCHANGED <<ai_enabled, error, execution_log, locals_bound, step_count,
                   action_history, test_failed, verifications_passed,
                   verifications_total, failure_info, failure_captured,
                   action_data, previous_url, page_url, page_html,
                   oracle_calls, oracle_always_failed, exec_calls,
                   evidence_captures, result, oracle_raw, unitVars>>

\* a run without verifications counted as failed
derive_status_unverified_fails(err, failed, v_passed, v_total) ==
    LET has_failed_verifications == v_total > 0 /\ v_passed < v_total IN
    IF err # "None" \/ failed \/ has_failed_verifications \/ v_total = 0
    THEN "fail"
    ELSE "pass"

\* lines 1443-1452
derive_status(err, failed, v_passed, v_total) ==
    LET has_failed_verifications == v_total > 0 /\ v_passed < v_total IN
    IF err # "None" \/ failed \/ has_failed_verifications THEN "fail"
    ELSE IF v_total = 0 THEN "inconclusive"
    ELSE "pass"

\* a variant whose summary of a failure is the explanation alone
bug_summary_explanation_only(status, plain, err, v_passed, v_total) ==
    IF status = "pass" THEN "None"
    ELSE IF status = "inconclusive" THEN "No verifications were performed"
    ELSE plain

\* lines 1478-1487
bug_summary(status, plain, err, v_passed, v_total) ==
    IF status = "pass" THEN "None"
    ELSE IF status = "inconclusive" THEN "No verifications were performed"
    ELSE IF plain \notin {"None", ""} THEN plain
    ELSE IF err # "None" THEN err
    ELSE IF v_total > 0 /\ v_passed < v_total THEN "Verification failed"
    ELSE "Test execution incomplete"

\* lines 1210-1216: what the explanation request produces: a sentence, a
\* blank text, an exception of the client, or a message without content
ExplainReplies == {"sentence", "blank", "raise", "no_content"}

\* a failed request leaves the outcome without an explanation
explain_failure_no_fallback(ai, failure_reason, reply) ==
    IF ~ai THEN failure_reason
    ELSE IF reply = "sentence" THEN "AI explanation"
    ELSE IF reply = "blank" THEN ""
    ELSE "None"

\* lines 1181-1223
explain_failure_in_plain_english(ai, failure_reason, reply) ==
    IF ~ai THEN failure_reason
    ELSE IF reply = "sentence" THEN "AI explanation"
    ELSE IF reply = "blank" THEN ""
    ELSE failure_reason

\* lines 1465-1476: the record of the explanation request of a run
Explained(reply) == [method |-> "explain_failure_in_plain_english",
                     requests |-> 1, reply |-> reply]

\* lines 1433-1509: the outcome; test_failed is read at line 1446 although
\* it is assigned only in the AI branch (line 1271)
Finish ==
    /\ pc = "finish"
    /\ IF error = "None" /\ ~locals_bound
       THEN /\ pc' = "raised"
            /\ UNCHANGED <<result, unit_out>>
       ELSE LET v_passed == IF locals_bound THEN verifications_passed ELSE 0
                v_total == IF locals_bound THEN verifications_total ELSE 0
                captured == locals_bound /\ failure_captured
                fail_info == IF captured THEN failure_info ELSE NoFailure
                status == derive_status(error, locals_bound /\ test_failed,
                                        v_passed, v_total)
                asked == status = "fail" /\ captured
                                         /\ fail_info.reason # "None" IN
            /\ pc' = "done"
            /\ \E reply \in IF asked THEN ExplainReplies ELSE {"sentence"} :
                 LET plain == IF asked
                              THEN explain_failure_in_plain_english(
                                       ai_enabled, fail_info.reason, reply)
                              ELSE "None" IN
                 /\ unit_out' = IF asked /\ ai_enabled THEN Explained(reply)
                                 ELSE unit_out
                 /\ result' =
                      [status |-> status,
                       bug_summary |->
                         bug_summary(status, plain, error, v_passed, v_total),
                       verifications |->
                         [total |-> v_total, passed |-> v_passed,
                          failed |-> v_total - v_passed],
                       failure_info |-> fail_info,
                       plain_english_explanation |-> plain]
    /\ UNCHANGED <<ai_enabled, error, execution_log, locals_bound, step_count,
                   action_history, test_failed, verifications_passed,
                   verifications_total, failure_info, failure_captured,
                   action_data, previous_url, page_url, page_html,
                   oracle_calls, oracle_always_failed, exec_calls,
                   evidence_captures, context_closes, oracle_raw,
                   healed_selectors, healing_history, healing_calls, page,
                   unit_in>>

Next ==
    \/ NavigateOk
    \/ NavigateFails
    \/ StartStep
    \/ LoopExit
    \/ StepOracleError
    \/ StepComplete
    \/ StepVerify
    \/ StepAction
    \/ AfterLoop
    \/ CloseContext
    \/ Finish

Spec == Init /\ [][Next]_vars

(***************************************************************************)
(* The oracle call on its own: every response of at most MaxLen tokens.    *)
(***************************************************************************)
OracleInit ==
    /\ pc = "oracle_call"
    /\ oracle_raw \in Responses
    /\ action_data = NoAction
    /\ ai_enabled = TRUE
    /\ error = "None"
    /\ execution_log = <<>>
    /\ locals_bound = FALSE
    /\ step_count = 0
    /\ action_history = <<>>
    /\ test_failed = FALSE
    /\ verifications_passed = 0
    /\ verifications_total = 0
    /\ failure_info = NoFailure
    /\ failure_captured = FALSE
    /\ previous_url = NoUrl
    /\ page_url = NoUrl
    /\ page_html = <<>>
    /\ oracle_calls = 0
    /\ oracle_always_failed = TRUE
    /\ exec_calls = 0
    /\ evidence_captures = 0
    /\ context_closes = 0
    /\ result = NoResult
    /\ UnitAtRest

\* lines 630-683: one call of analyze_page_and_get_action
OracleAnswer ==
    /\ pc = "oracle_call"
    /\ LET r == analyze_page_and_get_action(oracle_raw) IN
         /\ pc' = IF r.raised THEN "oracle_raised" ELSE "oracle_returned"
         /\ action_data' = r.data
    /\ UNCHANGED <<runVars, oracle_raw, unitVars>>

OracleNext == OracleAnswer

SpecOracle == OracleInit /\ [][OracleNext]_vars

(***************************************************************************)
(* SelfHealingEngine.  A page is the sequence of its elements in document  *)
(* order; a selector is the query it stands for; a text is a sequence of   *)
(* words.                                                                  *)
(***************************************************************************)
\* elements a page holds at most
MaxElems == 2
\* lookups made on one engine
MaxLookups == 2

Css(a) == [kind |-> "css", arg |-> a]
TextQ(a) == [kind |-> "text", arg |-> a]
AriaQ(a) == [kind |-> "aria", arg |-> a]
RoleQ(a) == [kind |-> "role", arg |-> a]
TestIdQ(a) == [kind |-> "testid", arg |-> a]
TestIdPartQ(a) == [kind |-> "testid_part", arg |-> a]
NoSelector == [kind |-> "none", arg |-> ""]

Blank == [css |-> "", text |-> <<>>, aria |-> <<>>, role |-> "",
          testid |-> <<>>, tag |-> "div", visible |-> TRUE]

Elements ==
    {[Blank EXCEPT !.aria = <<"search", "icon">>, !.tag = "button"],
     [Blank EXCEPT !.aria = <<"Search", "site">>, !.visible = FALSE],
     [Blank EXCEPT !.text = <<"Search">>, !.tag = "a"],
     [Blank EXCEPT !.role = "searchbox", !.tag = "input"],
     [Blank EXCEPT !.role = "button", !.visible = FALSE],
     [Blank EXCEPT !.css = "#search-btn", !.tag = "button"],
     [Blank EXCEPT !.testid = <<"search-btn", "2">>]}

Pages == {pg \in UNION {[1..n -> Elements] : n \in 0..MaxElems} :
             \A i, j \in DOMAIN pg : i # j => pg[i] # pg[j]}

\* str.lower()
Lower(w) == CASE w = "Search" -> "search"
              [] w = "Thank-You" -> "thank-you"
              [] w = "Click" -> "click"
              [] OTHER -> w

\* the substring matching of Playwright's text, attribute and id selectors
Matches(q, e) ==
    CASE q.kind = "css" -> e.css = q.arg
      [] q.kind = "text" ->
           \E i \in DOMAIN e.text : Lower(e.text[i]) = Lower(q.arg)
      [] q.kind = "aria" ->
           \E i \in DOMAIN e.aria : Lower(e.aria[i]) = Lower(q.arg)
      [] q.kind = "role" -> e.role = q.arg
      [] q.kind = "role_name" ->
           /\ e.role = q.role \/ (q.role = "button" /\ e.tag = "button")
                \/ (q.role = "link" /\ e.tag = "a")
           /\ \E i \in DOMAIN (e.aria \o e.text) :
                Lower((e.aria \o e.text)[i]) = Lower(q.arg)
      [] q.kind = "testid" -> e.testid = <<q.arg>>
      [] q.kind = "testid_part" ->
           \E i \in DOMAIN e.testid : Lower(e.testid[i]) = Lower(q.arg)
      [] OTHER -> FALSE

\* page.locator(q): the matching elements in document order
RECURSIVE Locate(_, _)
Locate(pg, q) ==
    IF pg = <<>> THEN <<>>
    ELSE (IF Matches(q, Head(pg)) THEN <<Head(pg)>> ELSE <<>>)
         \o Locate(Tail(pg), q)

\* locator.count() > 0 and locator.first.is_visible()
FirstVisible(pg, q) == Locate(pg, q) # <<>> /\ Locate(pg, q)[1].visible

NotFound == [found |-> FALSE, healed_selector |-> NoSelector,
             strategy_used |-> "None", confidence |-> "low"]

Found(q, strategy, confidence) ==
    [found |-> TRUE, healed_selector |-> q, strategy_used |-> strategy,
     confidence |-> confidence]

\* len(w) > 2
LongWord(w) == w \notin {"go", "to"}

RECURSIVE Filter(_, _)
Filter(s, keep) ==
    IF s = <<>> THEN <<>>
    ELSE (IF Head(s) \in keep THEN <<Head(s)>> ELSE <<>>)
         \o Filter(Tail(s), keep)

\* line 232: [w for w in text_hint.split() if len(w) > 2][:3]
Keywords(text_hint) ==
    LET long == Filter(text_hint, {w \in {text_hint[i] : i \in DOMAIN text_hint} :
                                      LongWord(w)}) IN
    SubSeq(long, 1, IF Len(long) < 3 THEN Len(long) ELSE 3)

clickable_tags == {"button", "a", "input[type=submit]"}

\* lines 234-267: one keyword of _heal_by_text
TextMatch(pg, keyword) ==
    LET m == Locate(pg, TextQ(keyword)) IN
    /\ m # <<>>
    /\ \/ \E i \in DOMAIN m : m[i].tag \in clickable_tags /\ m[i].visible
       \/ m[1].visible

\* lines 227-269
RECURSIVE HealByKeywords(_, _)
HealByKeywords(pg, keywords) ==
    IF keywords = <<>> THEN NotFound
    ELSE IF TextMatch(pg, Head(keywords))
    THEN Found(TextQ(Head(keywords)), "text_content", "medium")
    ELSE HealByKeywords(pg, Tail(keywords))

heal_by_text(pg, text_hint) == HealByKeywords(pg, Keywords(text_hint))

\* lines 280-287: the hints taken from the original selector
SelectorHints(sel) ==
    CASE sel.arg = "#search-btn" -> <<"search">>
      [] sel.arg = "button.go" -> <<"button">>
      [] OTHER -> <<>>

\* line 291
aria_vocabulary ==
    <<"search", "login", "submit", "buy", "add", "cart", "checkout">>

\* lines 290-293: the words of the vocabulary found in the lower-cased
\* reasoning, in vocabulary order
ReasoningHints(reasoning) ==
    Filter(aria_vocabulary,
           {Lower(reasoning[i]) : i \in DOMAIN reasoning})

\* lines 312-317
role_map == [h \in {"button", "search", "submit", "link"} |->
                CASE h = "search" -> "searchbox"
                  [] h = "link" -> "link"
                  [] OTHER -> "button"]

\* the role selector tried before the aria-label selector
RECURSIVE HealByHintsRoleFirst(_, _)
HealByHintsRoleFirst(pg, hints) ==
    IF hints = <<>> THEN NotFound
    ELSE LET hint == Head(hints) IN
         IF hint \in DOMAIN role_map /\ Locate(pg, RoleQ(role_map[hint])) # <<>>
         THEN Found(RoleQ(role_map[hint]), "role", "medium")
         ELSE IF FirstVisible(pg, AriaQ(hint))
         THEN Found(AriaQ(hint), "aria_label", "high")
         ELSE HealByHintsRoleFirst(pg, Tail(hints))

\* lines 295-331: for each hint the aria-label selector, then the role
RECURSIVE HealByHints(_, _)
HealByHints(pg, hints) ==
    IF hints = <<>> THEN NotFound
    ELSE LET hint == Head(hints) IN
         IF FirstVisible(pg, AriaQ(hint))
         THEN Found(AriaQ(hint), "aria_label", "high")
         ELSE IF hint \in DOMAIN role_map
                 /\ Locate(pg, RoleQ(role_map[hint])) # <<>>
         THEN Found(RoleQ(role_map[hint]), "role", "medium")
         ELSE HealByHints(pg, Tail(hints))

\* lines 271-333
heal_by_aria(pg, sel, context) ==
    HealByHints(pg, SelectorHints(sel) \o ReasoningHints(context.reasoning))

\* lines 344-348: the class and id names of the original selector
TestIdPatterns(sel) ==
    CASE sel.arg = "#search-btn" -> <<"search-btn">>
      [] sel.arg = "button.go" -> <<"go">>
      [] OTHER -> <<>>

\* lines 350-379
RECURSIVE HealByPatterns(_, _)
HealByPatterns(pg, patterns) ==
    IF patterns = <<>> THEN NotFound
    ELSE IF Locate(pg, TestIdQ(Head(patterns))) # <<>>
    THEN Found(TestIdQ(Head(patterns)), "data_testid", "high")
    ELSE IF Locate(pg, TestIdPartQ(Head(patterns))) # <<>>
    THEN Found(TestIdPartQ(Head(patterns)), "data_testid", "medium")
    ELSE HealByPatterns(pg, Tail(patterns))

\* lines 335-381
heal_by_testid(pg, sel) == HealByPatterns(pg, TestIdPatterns(sel))

\* what the model asked for a selector can answer: nothing usable, or a
\* selector with its own confidence
AiAnswers == {[found |-> FALSE, suggested_selector |-> NoSelector,
               confidence |-> "low"],
              [found |-> TRUE, suggested_selector |-> RoleQ("searchbox"),
               confidence |-> "low"]}

\* lines 383-468
heal_by_ai_vision(pg, answer) ==
    IF answer.found /\ Locate(pg, answer.suggested_selector) # <<>>
    THEN Found(answer.suggested_selector, "ai_vision", answer.confidence)
    ELSE NotFound

\* lines 140-148
LookupResult(sel, r, healed, element) ==
    [found |-> r.found, element |-> element, healed |-> healed,
     original_selector |-> sel, healed_selector |-> r.healed_selector,
     strategy_used |-> r.strategy_used, confidence |-> r.confidence]

NoElement == [Blank EXCEPT !.tag = "None"]

\* lines 470-477
CacheEntry(r) == [selector |-> r.healed_selector,
                  strategy |-> r.strategy_used,
                  confidence |-> r.confidence]

\* lines 479-484
HistoryEntry(sel, r) == [original |-> sel, healed |-> r.healed_selector,
                         strategy |-> r.strategy_used]

\* a cache that keeps the first healing of a selector
cache_healing_keep_first(cache, sel, r) ==
    IF sel \in DOMAIN cache THEN cache
    ELSE [s \in DOMAIN cache \cup {sel} |->
            IF s = sel THEN CacheEntry(r) ELSE cache[s]]

\* a cache that holds the latest healing only
cache_healing_latest_only(cache, sel, r) ==
    [s \in {sel} |-> CacheEntry(r)]

\* lines 470-484: _cache_healing
cache_healing(cache, sel, r) ==
    [s \in DOMAIN cache \cup {sel} |->
        IF s = sel THEN CacheEntry(r) ELSE cache[s]]

\* the cached selector trusted only while its first match is visible
CacheHitIfVisible(pg, sel, cache) ==
    sel \in DOMAIN cache /\ FirstVisible(pg, cache[sel].selector)

\* lines 151-155: the original selector was healed before and the cached
\* selector still matches
CacheHit(pg, sel, cache) ==
    sel \in DOMAIN cache /\ Locate(pg, cache[sel].selector) # <<>>

\* line 190: context.get("reasoning", "") or context.get("value", "")
TextHint(context) ==
    IF context.reasoning # <<>> THEN context.reasoning ELSE context.value

\* a variant that tries the data-testid strategy before the aria strategy
HealTestIdBeforeAria(pg, sel, context, ai) ==
    LET text_hint == TextHint(context)
        by_text == IF text_hint # <<>> THEN heal_by_text(pg, text_hint)
                   ELSE NotFound
        by_aria == heal_by_aria(pg, sel, context)
        by_testid == heal_by_testid(pg, sel)
        by_ai == IF ai.on THEN heal_by_ai_vision(pg, ai.answer) ELSE NotFound
        t1 == IF text_hint # <<>> THEN <<"text_content">> ELSE <<>>
        t2 == t1 \o <<"data_testid">>
        t3 == t2 \o <<"aria">>
        t4 == t3 \o (IF ai.on THEN <<"ai_vision">> ELSE <<>>)
    IN  IF by_text.found THEN [r |-> by_text, tried |-> t1]
        ELSE IF by_testid.found THEN [r |-> by_testid, tried |-> t2]
        ELSE IF by_aria.found THEN [r |-> by_aria, tried |-> t3]
        ELSE [r |-> by_ai, tried |-> t4]

\* lines 186-225: the healing strategies in order; what was attempted, and
\* the first success
Heal(pg, sel, context, ai) ==
    LET text_hint == TextHint(context)
        by_text == IF text_hint # <<>> THEN heal_by_text(pg, text_hint)
                   ELSE NotFound
        by_aria == heal_by_aria(pg, sel, context)
        by_testid == heal_by_testid(pg, sel)
        by_ai == IF ai.on THEN heal_by_ai_vision(pg, ai.answer) ELSE NotFound
        t1 == IF text_hint # <<>> THEN <<"text_content">> ELSE <<>>
        t2 == t1 \o <<"aria">>
        t3 == t2 \o <<"data_testid">>
        t4 == t3 \o (IF ai.on THEN <<"ai_vision">> ELSE <<>>)
    IN  IF by_text.found THEN [r |-> by_text, tried |-> t1]
        ELSE IF by_aria.found THEN [r |-> by_aria, tried |-> t2]
        ELSE IF by_testid.found THEN [r |-> by_testid, tried |-> t3]
        ELSE [r |-> by_ai, tried |-> t4]

\* lines 119-225: the result, the strategies attempted in order, and the
\* cache and the history after the call
find_element_with_healing(pg, sel, context, ai, cache, history) ==
    IF CacheHit(pg, sel, cache)
    THEN [result |->
            LookupResult(sel,
                         Found(cache[sel].selector, "cached_healing",
                               cache[sel].confidence),
                         TRUE, Locate(pg, cache[sel].selector)[1]),
          tried |-> <<"cache">>, cache |-> cache, history |-> history]
    ELSE LET t0 == IF sel \in DOMAIN cache THEN <<"cache">> ELSE <<>> IN
         IF FirstVisible(pg, sel)
         THEN [result |->
                 LookupResult(sel, [NotFound EXCEPT !.found = TRUE,
                                                     !.strategy_used = "original",
                                                     !.confidence = "high"],
                              FALSE, Locate(pg, sel)[1]),
               tried |-> t0 \o <<"original">>,
               cache |-> cache, history |-> history]
         ELSE LET h == Heal(pg, sel, context, ai) IN
              IF h.r.found
              THEN [result |->
                      LookupResult(sel, h.r, TRUE,
                                   Locate(pg, h.r.healed_selector)[1]),
                    tried |-> t0 \o <<"original">> \o h.tried,
                    cache |-> cache_healing(cache, sel, h.r),
                    history |-> Append(history, HistoryEntry(sel, h.r))]
              ELSE [result |-> LookupResult(sel, NotFound, FALSE, NoElement),
                    tried |-> t0 \o <<"original">> \o h.tried,
                    cache |-> cache, history |-> history]

OriginalSelectors == {Css("#search-btn"), Css("button.go")}

NoWords == <<>>

Contexts == {[reasoning |-> <<"Click", "search", "icon">>, value |-> NoWords],
             [reasoning |-> <<"search">>, value |-> NoWords],
             [reasoning |-> <<"go">>, value |-> NoWords],
             [reasoning |-> NoWords, value |-> <<"Search">>]}

\* line 216: the controller handed over, and what its model answers
AiModes == {[on |-> FALSE, answer |-> CHOOSE a \in AiAnswers : ~a.found]}
           \cup [on : {TRUE}, answer : AiAnswers]

\* the variables of run_test and of the oracle, untouched by a method that
\* is exercised on its own
RunAtRest ==
    /\ ai_enabled = TRUE
    /\ error = "None"
    /\ execution_log = <<>>
    /\ locals_bound = FALSE
    /\ step_count = 0
    /\ action_history = <<>>
    /\ test_failed = FALSE
    /\ verifications_passed = 0
    /\ verifications_total = 0
    /\ failure_info = NoFailure
    /\ failure_captured = FALSE
    /\ previous_url = NoUrl
    /\ page_url = NoUrl
    /\ page_html = <<>>
    /\ oracle_calls = 0
    /\ oracle_always_failed = TRUE
    /\ exec_calls = 0
    /\ evidence_captures = 0
    /\ context_closes = 0
    /\ result = NoResult
    /\ action_data = NoAction
    /\ oracle_raw = [kind |-> "raise", content |-> <<>>, doc |-> NonDict]

HealInit ==
    /\ pc = "healing"
    /\ RunAtRest
    /\ healed_selectors = <<>>
    /\ healing_history = <<>>
    /\ healing_calls = 0
    /\ page \in Pages
    /\ unit_in = NoCall
    /\ unit_out = NoCall

\* lines 119-225: one lookup on the current page
HealLookup ==
    /\ pc = "healing"
    /\ healing_calls < MaxLookups
    /\ \E sel \in OriginalSelectors, context \in Contexts, ai \in AiModes :
         LET f == find_element_with_healing(page, sel, context, ai,
                                            healed_selectors, healing_history)
         IN  /\ unit_in' = [method |-> "find_element_with_healing",
                            original_selector |-> sel, context |-> context,
                            ai |-> ai, cached |-> sel \in DOMAIN healed_selectors]
             /\ unit_out' = [method |-> "find_element_with_healing",
                             result |-> f.result, tried |-> f.tried]
             /\ healed_selectors' = f.cache
             /\ healing_history' = f.history
    /\ healing_calls' = healing_calls + 1
    /\ UNCHANGED <<pc, runVars, action_data, oracle_raw, page>>

\* between two lookups the page loses an element
PageChanges ==
    /\ pc = "healing"
    /\ unit_in # NoCall
    /\ \E i \in DOMAIN page :
         page' = SubSeq(page, 1, i - 1) \o SubSeq(page, i + 1, Len(page))
    /\ unit_in' = NoCall
    /\ unit_out' = NoCall
    /\ UNCHANGED <<pc, runVars, action_data, oracle_raw, healed_selectors,
                   healing_history, healing_calls>>

HealNext == HealLookup \/ PageChanges

SpecHealing == HealInit /\ [][HealNext]_vars

(***************************************************************************)
(* execute_verification on its own.  A verification is the dict of the     *)
(* oracle; the faults are the Playwright calls that raise, and whether the *)
(* page loses its elements between the lookup and the read.                *)
(***************************************************************************)
VerifyTypes == {"exists", "visible", "not_visible", "enabled",
                "text_contains", "text_equals", "url_contains"}

Target == [Blank EXCEPT !.css = "#search-btn", !.tag = "button"]

VerifyPages ==
    {<<>>,
     <<Target>>,
     <<[Target EXCEPT !.visible = FALSE]>>,
     <<[Target EXCEPT !.visible = FALSE, !.text = <<"Search">>], Target>>,
     <<[Blank EXCEPT !.text = <<"Search">>]>>,
     <<[Blank EXCEPT !.aria = <<"Search", "site">>, !.visible = FALSE]>>,
     <<[Blank EXCEPT !.aria = <<"Search", "site">>],
       [Blank EXCEPT !.text = <<"Search">>]>>}

\* page.url as the pieces the expected text is compared with
VerifyUrls == {<<"https://x.com/", "thank-you">>, <<"https://x.com/">>}

Verifications ==
    [selector : {NoSelector, Css("#search-btn")},
     verify_type : VerifyTypes \cup {"bogus"},
     expected : {"", "thank-you", "Thank-You", "Search"}]

VerifyFaults ==
    [lookup_raises : {{}, {"selector"}, {"selector", "text", "aria"}},
     read_raises : BOOLEAN,
     vanishes : BOOLEAN,
     enabled : BOOLEAN]

\* expected.lower() in text.lower(), text given by its pieces
ContainsLower(pieces, expected) ==
    expected = "" \/ \E i \in DOMAIN pieces : Lower(pieces[i]) = Lower(expected)

\* lines 976-985
InitialVerification(v) ==
    [passed |-> FALSE, verify_type |-> v.verify_type, expected |-> v.expected,
     actual |-> "", confidence |-> "low", reason |-> "",
     selector_used |-> v.selector]

\* a fallback that leaves the confidence as it was
TryFallbackKeepsConfidence(pg, r, q, raises) ==
    IF r.locator # NoSelector \/ r.result.expected = "" THEN r
    ELSE IF raises THEN [r EXCEPT !.lookups = @ + 1]
    ELSE IF Locate(pg, q) # <<>>
    THEN [r EXCEPT !.locator = q, !.lookups = @ + 1,
                   !.result.selector_used = q]
    ELSE [r EXCEPT !.lookups = @ + 1]

\* one fallback of lines 1005-1030: the locator, the result and the number
\* of lookups after trying query q
TryFallback(pg, r, q, raises) ==
    IF r.locator # NoSelector \/ r.result.expected = "" THEN r
    ELSE IF raises THEN [r EXCEPT !.lookups = @ + 1]
    ELSE IF Locate(pg, q) # <<>>
    THEN [r EXCEPT !.locator = q, !.lookups = @ + 1,
                   !.result.selector_used = q,
                   !.result.confidence = "medium"]
    ELSE [r EXCEPT !.lookups = @ + 1]

\* a variant that tries the aria-label before the text search
ResolveLocatorAriaFirst(pg, v, faults) ==
    LET r0 == [locator |-> NoSelector, lookups |-> 0,
               result |-> InitialVerification(v)]
        r1 == IF "selector" \in faults.lookup_raises \/ Locate(pg, v.selector) = <<>>
              THEN [r0 EXCEPT !.lookups = 1]
              ELSE [r0 EXCEPT !.lookups = 1, !.locator = v.selector,
                              !.result.confidence = "high"]
        r2 == TryFallback(pg, r1, AriaQ(v.expected),
                          "aria" \in faults.lookup_raises)
    IN  IF v.selector = NoSelector THEN r0
        ELSE TryFallback(pg, r2, TextQ(v.expected),
                         "text" \in faults.lookup_raises)

\* lines 989-1030: the selector as given, then the expected text, then an
\* aria-label that contains it
ResolveLocator(pg, v, faults) ==
    LET r0 == [locator |-> NoSelector, lookups |-> 0,
               result |-> InitialVerification(v)]
        r1 == IF "selector" \in faults.lookup_raises \/ Locate(pg, v.selector) = <<>>
              THEN [r0 EXCEPT !.lookups = 1]
              ELSE [r0 EXCEPT !.lookups = 1, !.locator = v.selector,
                              !.result.confidence = "high"]
        r2 == TryFallback(pg, r1, TextQ(v.expected),
                          "text" \in faults.lookup_raises)
    IN  IF v.selector = NoSelector THEN r0
        ELSE TryFallback(pg, r2, AriaQ(v.expected),
                         "aria" \in faults.lookup_raises)

Verdict(res, passed, actual, yes, no) ==
    [res EXCEPT !.passed = passed, !.actual = actual,
                !.reason = IF passed THEN yes ELSE no]

\* the URL test made on the text as it is, case included
UrlVerdictCaseSensitive(res, url) ==
    [Verdict(res, res.expected = ""
                    \/ \E i \in DOMAIN url : url[i] = res.expected,
             "url", "URL contains", "URL does not contain")
        EXCEPT !.confidence = "high"]

\* lines 1033-1043
UrlVerdict(res, url) ==
    [Verdict(res, ContainsLower(url, res.expected), "url",
             "URL contains", "URL does not contain")
        EXCEPT !.confidence = "high"]

\* lines 1053-1122: the element-based verdict; m is what the locator
\* matches when the state is read
ElementVerdict(res, m, faults) ==
    LET vt == res.verify_type
        raises == faults.read_raises IN
    CASE vt = "exists" ->
           [exc |-> IF raises THEN "Error" ELSE "none",
            result |-> IF raises THEN res
                       ELSE Verdict(res, m # <<>>, "count",
                                    "Element exists", "Element not found in DOM")]
      [] vt = "visible" ->
           [exc |-> "none",
            result |-> IF raises
                       THEN Verdict(res, FALSE, "not found",
                                    "", "Could not check visibility")
                       ELSE Verdict(res, m # <<>> /\ m[1].visible, "visibility",
                                    "Element is visible",
                                    "Element exists but not visible")]
      [] vt = "not_visible" ->
           [exc |-> "none",
            result |-> IF raises
                       THEN Verdict(res, TRUE, "not found",
                                    "Element not found (treated as not visible)", "")
                       ELSE IF m = <<>>
                       THEN Verdict(res, TRUE, "not present",
                                    "Element not present in DOM (good)", "")
                       ELSE Verdict(res, ~m[1].visible, "visibility",
                                    "Element hidden",
                                    "Element still visible (should be hidden)")]
      [] vt = "enabled" ->
           [exc |-> "none",
            result |-> IF raises \/ m = <<>>
                       THEN Verdict(res, FALSE, "unknown",
                                    "", "Could not check enabled state")
                       ELSE Verdict(res, faults.enabled, "enabled state",
                                    "Element is clickable", "Element is disabled")]
      [] vt = "text_contains" ->
           [exc |-> "none",
            result |-> IF raises \/ m = <<>>
                       THEN Verdict(res, FALSE, "could not read text",
                                    "", "Error reading text")
                       ELSE Verdict(res, ContainsLower(m[1].text, res.expected),
                                    "text", "Text contains", "Text does not contain")]
      [] vt = "text_equals" ->
           [exc |-> "none",
            result |-> IF raises \/ m = <<>>
                       THEN Verdict(res, FALSE, "could not read text",
                                    "", "Error reading text")
                       ELSE Verdict(res,
                                    [i \in DOMAIN m[1].text |-> Lower(m[1].text[i])]
                                      = (IF res.expected = "" THEN <<>>
                                         ELSE <<Lower(res.expected)>>),
                                    "text", "Text matches exactly", "Text mismatch")]
      [] OTHER ->
           [exc |-> "none",
            result |-> [res EXCEPT !.reason = "Unknown verification type"]]

\* the try body of lines 987-1128: the exception it ends with or its
\* result, and the number of element lookups it made
VerifyTry(pg, url, v, faults) ==
    LET r == ResolveLocator(pg, v, faults)
        later == IF faults.vanishes THEN <<>> ELSE pg IN
    IF v.verify_type = "url_contains"
    THEN [exc |-> "none", result |-> UrlVerdict(r.result, url),
          lookups |-> r.lookups]
    ELSE IF r.locator = NoSelector
    THEN [exc |-> "none",
          result |-> [r.result EXCEPT !.reason = "Element not found",
                                      !.confidence = "low"],
          lookups |-> r.lookups]
    ELSE LET e == ElementVerdict(r.result, Locate(later, r.locator), faults) IN
         [exc |-> e.exc, result |-> e.result, lookups |-> r.lookups]

\* the exception handed to the caller
VerifyHandlerReraise(t) == [raised |-> TRUE, result |-> t.result]

\* lines 1130-1134
VerifyHandler(t) ==
    [raised |-> FALSE,
     result |-> [t.result EXCEPT !.reason = "Verification error",
                                 !.confidence = "low"]]

\* lines 964-1134
ExecuteVerification(pg, url, v, faults) ==
    LET t == VerifyTry(pg, url, v, faults) IN
    IF t.exc = "none"
    THEN [raised |-> FALSE, result |-> t.result, lookups |-> t.lookups]
    ELSE [raised |-> VerifyHandler(t).raised,
          result |-> VerifyHandler(t).result, lookups |-> t.lookups]

VerifyInit ==
    /\ pc = "verification"
    /\ RunAtRest
    /\ healed_selectors = <<>>
    /\ healing_history = <<>>
    /\ healing_calls = 0
    /\ page \in VerifyPages
    /\ unit_in \in [method : {"execute_verification"}, url : VerifyUrls,
                    verification : Verifications, faults : VerifyFaults]
    /\ unit_out = NoCall

\* lines 964-1134: one call of execute_verification
VerifyCall ==
    /\ pc = "verification"
    /\ LET r == ExecuteVerification(page, unit_in.url, unit_in.verification,
                                    unit_in.faults) IN
         /\ pc' = IF r.raised THEN "verification_raised"
                  ELSE "verification_returned"
         /\ unit_out' = [method |-> "execute_verification",
                         result |-> r.result, lookups |-> r.lookups]
    /\ UNCHANGED <<runVars, action_data, oracle_raw, healed_selectors,
                   healing_history, healing_calls, page, unit_in>>

VerifyNext == VerifyCall

SpecVerify == VerifyInit /\ [][VerifyNext]_vars

(***************************************************************************)
(* execute_action on its own.  A click or a fill of an element raises when *)
(* the element is hidden or the page intercepts it; the waits for a load   *)
(* state raise when they time out.                                         *)
(***************************************************************************)
ExecPages ==
    {<<>>,
     <<Target>>,
     <<[Target EXCEPT !.visible = FALSE]>>,
     <<[Target EXCEPT !.visible = FALSE], Target>>,
     <<[Blank EXCEPT !.text = <<"Search">>, !.tag = "a"]>>,
     <<[Blank EXCEPT !.text = <<"Search">>, !.visible = FALSE],
       [Blank EXCEPT !.aria = <<"search", "icon">>, !.tag = "button"]>>,
     <<[Blank EXCEPT !.role = "searchbox", !.tag = "input"]>>,
     <<[Blank EXCEPT !.text = <<"Search">>, !.tag = "a"],
       [Blank EXCEPT !.text = <<"Search">>, !.tag = "button"]>>}

\* clicks that raise although their target can be used, before one succeeds
MaxTransient == 1

\* act_raises: every click, fill and key press raises; wait_raises: the
\* waits time out; transient: the first clicks on a usable target raise
\* (the target is not ready within the timeout of the attempt)
ExecFaults == [act_raises : BOOLEAN, wait_raises : BOOLEAN,
               transient : 0..MaxTransient]

ExecActions ==
    [is_dict : {TRUE}, action : DocActions,
     selector : {NoSelector, Css("#search-btn"), TextQ("Search")},
     value : {"v"}, reasoning : {"text"}]

\* one attempt of a chain: the element is passed over, clicked or filled,
\* or the attempt raises
Attempt(e, faults) ==
    IF ~e.visible THEN "skip"
    ELSE IF faults.act_raises THEN "raise" ELSE "ok"

\* lines 774-782 and 867-876: every match in turn, the visible ones only
VisibleAttempts(m, faults) == [i \in DOMAIN m |-> Attempt(m[i], faults)]

\* lines 822-832 and 911-919: the first match of a fallback selector
FallbackAttempt(pg, q, faults) ==
    IF Locate(pg, q) = <<>> THEN "skip" ELSE Attempt(Locate(pg, q)[1], faults)

\* locator.first.click, page.click and page.fill act on the first match and
\* raise when there is none or it cannot be used
ForcedAttempt(m, faults) ==
    IF m # <<>> /\ m[1].visible /\ ~faults.act_raises THEN "ok" ELSE "raise"

\* lines 836-853: get_by_role(role, name=text)
RoleAttempt(pg, role, text, faults) ==
    LET m == Locate(pg, [kind |-> "role_name", role |-> role, arg |-> text]) IN
    IF m = <<>> THEN "skip" ELSE ForcedAttempt(m, faults)

\* lines 790-819: the fallback selectors derived from the text
click_fallbacks(text) == <<AriaQ(text), TestIdPartQ(Lower(text))>>

\* lines 901-909
type_fallbacks == <<RoleQ("searchbox")>>

\* a chain of attempts stops at the first success: whether one succeeded,
\* how many were made and how many raised
Chain(attempts) ==
    LET oks == {i \in DOMAIN attempts : attempts[i] = "ok"}
        last == IF oks = {} THEN Len(attempts) ELSE Min(oks) IN
    [done |-> oks # {},
     actuations |-> Cardinality({i \in 1..last : attempts[i] # "skip"}),
     raised |-> Cardinality({i \in 1..last : attempts[i] = "raise"})]

\* the chain followed by the attempt that is not guarded by a handler
GuardedThenForced(attempts, forced) ==
    LET c == Chain(attempts) IN
    IF c.done THEN [exc |-> "none", actuations |-> c.actuations,
                    raised |-> c.raised]
    ELSE [exc |-> IF forced = "ok" THEN "none" ELSE "Error",
          actuations |-> c.actuations + 1,
          raised |-> c.raised + (IF forced = "ok" THEN 0 ELSE 1)]

\* one attempt on a target of the click: the target, its rank among the
\* targets of its kind, and what became of the attempt
TargetAttempt(target, index, outcome) ==
    [target |-> target, index |-> index, outcome |-> outcome]

\* the first k attempts that would click their target raise instead
Obstruct(attempts, k) ==
    [i \in DOMAIN attempts |->
        IF /\ attempts[i].outcome = "ok"
           /\ Cardinality({j \in 1..(i - 1) : attempts[j].outcome = "ok"}) < k
        THEN [attempts[i] EXCEPT !.outcome = "raise"]
        ELSE attempts[i]]

\* lines 766-880: every target the click can go through, in the order of
\* the code, the last one being the attempt no handler guards
TargetAttempts(pg, sel, m, faults) ==
    LET visible == VisibleAttempts(m, faults)
        last == <<TargetAttempt("first_match", 1, ForcedAttempt(m, faults))>>
    IN    IF sel.kind = "text"
          THEN [i \in DOMAIN m |-> TargetAttempt("text_match", i, visible[i])]
               \o [i \in DOMAIN click_fallbacks(sel.arg) |->
                      TargetAttempt("fallback", i,
                          FallbackAttempt(pg, click_fallbacks(sel.arg)[i],
                                          faults))]
               \o <<TargetAttempt("role_button", 1,
                        RoleAttempt(pg, "button", sel.arg, faults)),
                    TargetAttempt("role_link", 1,
                        RoleAttempt(pg, "link", sel.arg, faults))>>
               \o last
          ELSE (IF Len(m) > 1
                THEN [i \in DOMAIN m |-> TargetAttempt("css_match", i, visible[i])]
                ELSE <<>>)
               \o last

\* lines 766-880: the same with the clicks that do not go through
ClickAttempts(pg, sel, faults) ==
    CHOOSE obstructed \in
        {Obstruct(attempts, faults.transient) :
            attempts \in {TargetAttempts(pg, sel, m, faults) :
                             m \in {Locate(pg, sel)}}} : TRUE

\* a chain that goes through every target whatever the outcome
EveryAttempt(attempts) == attempts

\* lines 780 (break), 784, 827, 834, 845 and 855 (if not clicked): nothing
\* is attempted after the first click that succeeds
UntilFirstSuccess(attempts) ==
    LET oks == {i \in DOMAIN attempts : attempts[i].outcome = "ok"} IN
    IF oks = {} THEN attempts ELSE SubSeq(attempts, 1, Min(oks))

\* lines 766-880: the attempts the click makes
ClickTrace(pg, sel, faults) ==
    CHOOSE trace \in {UntilFirstSuccess(attempts) :
                        attempts \in {ClickAttempts(pg, sel, faults)}} : TRUE

\* lines 766-880: the click itself
ClickChain(pg, sel, faults) ==
    CHOOSE c \in
        {[exc |-> IF \E i \in DOMAIN t : t[i].outcome = "ok" THEN "none"
                  ELSE "Error",
          actuations |-> Cardinality({i \in DOMAIN t : t[i].outcome # "skip"}),
          raised |-> Cardinality({i \in DOMAIN t : t[i].outcome = "raise"})] :
            t \in {ClickTrace(pg, sel, faults)}} : TRUE

\* lines 882-884: wait for the DOM, then return True
AfterClickWait(c, faults) ==
    IF c.exc = "none" /\ faults.wait_raises
    THEN [exc |-> "TimeoutError", value |-> FALSE, actuations |-> c.actuations,
          raised |-> c.raised + 1]
    ELSE [exc |-> c.exc, value |-> c.exc = "none",
          actuations |-> c.actuations, raised |-> c.raised]

\* lines 886-923: the selector as given, the fallback inputs, then
\* page.fill on the selector
TypeChain(pg, sel, faults) ==
    GuardedThenForced(
        <<FallbackAttempt(pg, sel, faults)>>
        \o [i \in DOMAIN type_fallbacks |->
               FallbackAttempt(pg, type_fallbacks[i], faults)],
        ForcedAttempt(Locate(pg, sel), faults))

Returned(c, value) ==
    [exc |-> c.exc, value |-> IF c.exc = "none" THEN value ELSE "False",
     actuations |-> c.actuations, raised |-> c.raised]

Straight(ok, value) ==
    Returned([exc |-> IF ok THEN "none" ELSE "Error", actuations |-> 1,
              raised |-> IF ok THEN 0 ELSE 1], value)

\* the try body of lines 763-958: the exception that leaves it or the value
\* it returns, the number of clicks, fills and key presses attempted and
\* the number of exceptions raised on the way
ExecTry(pg, ad, faults) ==
    LET action == ExecAction(ad) IN
    CASE action = "click" ->
           CHOOSE r \in
               {[exc |-> w.exc, value |-> IF w.value THEN "True" ELSE "False",
                 actuations |-> w.actuations, raised |-> w.raised] :
                   w \in {AfterClickWait(c, faults) :
                            c \in {ClickChain(pg, ad.selector, faults)}}} : TRUE
      [] action = "type" ->
           Returned(TypeChain(pg, ad.selector, faults), "True")
      [] action = "navigate" ->
           Straight(~faults.act_raises /\ ~faults.wait_raises, "True")
      [] action = "press" ->
           IF faults.act_raises THEN Straight(FALSE, "True")
           ELSE [exc |-> "none", value |-> "True", actuations |-> 1,
                 raised |-> IF faults.wait_raises THEN 1 ELSE 0]
      [] action = "wait" ->
           IF ad.selector # NoSelector
           THEN [Straight(FirstVisible(pg, ad.selector) /\ ~faults.wait_raises,
                          "True") EXCEPT !.actuations = 0]
           ELSE [exc |-> "none", value |-> "True", actuations |-> 0,
                 raised |-> 0]
      [] action = "verify" ->
           [exc |-> "none", value |-> "dict", actuations |-> 0, raised |-> 0]
      [] action = "complete" ->
           [exc |-> "none", value |-> "True", actuations |-> 0, raised |-> 0]
      [] OTHER ->
           [exc |-> "none", value |-> "False", actuations |-> 0, raised |-> 0]

\* the exception handed to the caller
ExecHandlerReraise(t) == [raised |-> TRUE, value |-> "None"]

\* lines 960-962
ExecHandler(t) == [raised |-> FALSE, value |-> "False"]

\* lines 755-962
ExecuteAction(pg, ad, faults) ==
    LET t == ExecTry(pg, ad, faults) IN
    IF t.exc = "none"
    THEN [raised |-> FALSE, value |-> t.value, escaped |-> FALSE,
          actuations |-> t.actuations, raised_inside |-> t.raised]
    ELSE [raised |-> ExecHandler(t).raised, value |-> ExecHandler(t).value,
          escaped |-> TRUE, actuations |-> t.actuations,
          raised_inside |-> t.raised]

ExecInit ==
    /\ pc = "action"
    /\ RunAtRest
    /\ healed_selectors = <<>>
    /\ healing_history = <<>>
    /\ healing_calls = 0
    /\ page \in ExecPages
    /\ unit_in \in [method : {"execute_action"}, action_data : ExecActions,
                    faults : ExecFaults]
    /\ unit_out = NoCall

\* lines 755-962: one call of execute_action
ExecCall ==
    /\ pc = "action"
    /\ \E r \in {ExecuteAction(page, unit_in.action_data, unit_in.faults)} :
         /\ pc' = IF r.raised THEN "action_raised" ELSE "action_returned"
         /\ unit_out' = [method |-> "execute_action", value |-> r.value,
                         escaped |-> r.escaped, actuations |-> r.actuations,
                         raised_inside |-> r.raised_inside,
                         trace |-> IF ExecAction(unit_in.action_data) = "click"
                                   THEN ClickTrace(page,
                                                   unit_in.action_data.selector,
                                                   unit_in.faults)
                                   ELSE <<>>]
    /\ UNCHANGED <<runVars, action_data, oracle_raw, healed_selectors,
                   healing_history, healing_calls, page, unit_in>>

ExecNext == ExecCall

SpecExec == ExecInit /\ [][ExecNext]_vars

(***************************************************************************)
(* PageStateTracker on its own: the tracker holds a baseline URL, the page *)
(* has a URL and a document.                                               *)
(***************************************************************************)
\* longest document, in chunks
MaxChunks == 2

Urls == [netloc : {"x.com", "y.com"}, path : {"/", "/thank-you"},
         query : {"", "q=1"}, fragment : {"", "top"}]

Documents == UNION {[1..n -> Chunks] : n \in 0..MaxChunks}

\* the variables of run_test other than the tracker's baseline and the page
TrackerRunAtRest ==
    /\ ai_enabled = TRUE
    /\ error = "None"
    /\ execution_log = <<>>
    /\ locals_bound = FALSE
    /\ step_count = 0
    /\ action_history = <<>>
    /\ test_failed = FALSE
    /\ verifications_passed = 0
    /\ verifications_total = 0
    /\ failure_info = NoFailure
    /\ failure_captured = FALSE
    /\ oracle_calls = 0
    /\ oracle_always_failed = TRUE
    /\ exec_calls = 0
    /\ evidence_captures = 0
    /\ context_closes = 0
    /\ result = NoResult
    /\ action_data = NoAction
    /\ oracle_raw = [kind |-> "raise", content |-> <<>>, doc |-> NonDict]

TrackerInit ==
    /\ pc = "tracker"
    /\ TrackerRunAtRest
    /\ UnitAtRest
    /\ previous_url \in Urls \cup {NoUrl}
    /\ page_url \in Urls
    /\ page_html \in Documents

\* lines 36-65: one call of detect_navigation with the page's URL
TrackNavigation ==
    /\ pc = "tracker"
    /\ LET r == detect_navigation(previous_url, page_url) IN
         /\ unit_in' = [method |-> "detect_navigation",
                        previous_url |-> previous_url,
                        current_url |-> page_url]
         /\ unit_out' = [method |-> "detect_navigation",
                         navigated |-> r.navigated, desc |-> r.desc]
         /\ previous_url' = r.previous_url
    /\ pc' = "tracked"
    /\ UNCHANGED <<ai_enabled, error, execution_log, locals_bound, step_count,
                   action_history, test_failed, verifications_passed,
                   verifications_total, failure_info, failure_captured,
                   action_data, page_url, page_html, oracle_calls,
                   oracle_always_failed, exec_calls, evidence_captures,
                   context_closes, result, oracle_raw, healed_selectors,
                   healing_history, healing_calls, page>>

\* lines 67-80: one call of detect_success_message with the page's document
TrackSuccess ==
    /\ pc = "tracker"
    /\ LET r == detect_success_message(page_html) IN
         /\ unit_in' = [method |-> "detect_success_message",
                        html_content |-> page_html]
         /\ unit_out' = [method |-> "detect_success_message",
                         found |-> r.found, keyword |-> r.keyword]
    /\ pc' = "tracked"
    /\ UNCHANGED <<runVars, action_data, oracle_raw, healed_selectors,
                   healing_history, healing_calls, page>>

TrackerNext == TrackNavigation \/ TrackSuccess

SpecTracker == TrackerInit /\ [][TrackerNext]_vars

(***************************************************************************)
(* server.py, execute_test_background: the dispatcher runs the worker and  *)
(* writes the outcome to the run record and to the project.  A database    *)
(* document is a function from its field names to their values.            *)
(***************************************************************************)
\* lines 1443-1507 of worker.py: the outcomes run_test can return
Outcomes ==
    {o \in [status : {"pass", "fail", "inconclusive"},
            duration_ms : {1200, 30000},
            ai_summary : {"summary"},
            bug_summary : {"None", "No verifications were performed",
                           "Verification failed"},
            video_path : {"None", "videos/run.webm"},
            verifications : {[total |-> 0, passed |-> 0, failed |-> 0],
                             [total |-> 2, passed |-> 1, failed |-> 1],
                             [total |-> 2, passed |-> 2, failed |-> 0]},
            failure_info : {NoFailure,
                            [step |-> 1, action |-> "click",
                             selector |-> "#btn",
                             reason |-> "Failed to execute"]},
            healing_summary : {[total_healings |-> 0], [total_healings |-> 1]}] :
        /\ o.status = "pass" <=> o.bug_summary = "None"
        /\ o.status = "inconclusive" <=>
              o.bug_summary = "No verifications were performed"
        /\ o.status = "pass" =>
              o.verifications.total > 0 /\ o.verifications.failed = 0
        /\ o.status = "inconclusive" => o.verifications.total = 0
        /\ o.status # "fail" => o.failure_info = NoFailure
        /\ o.verifications.failed > 0 => o.status = "fail"}

\* lines 803-814
run_doc == [run_id |-> "run_1", project_id |-> "p1", status |-> "running",
            duration_ms |-> "None", ai_summary |-> "Test initiated...",
            bug_summary |-> "None", video_url |-> "None",
            started_at |-> "t0", completed_at |-> "None"]

\* lines 817-820
project_doc == [project_id |-> "p1", status |-> "running", last_run |-> "t0"]

\* update_one with $set: the fields given replace or extend the document
SetFields(doc, fields) == fields @@ doc

\* lines 725-732
VideoUrl(video_path) ==
    IF video_path = "None" THEN "None" ELSE "http://backend/videos/run.webm"

\* lines 735-746
RunUpdate(outcome) ==
    [status |-> outcome.status, duration_ms |-> outcome.duration_ms,
     ai_summary |-> outcome.ai_summary, bug_summary |-> outcome.bug_summary,
     video_url |-> VideoUrl(outcome.video_path),
     video_path |-> outcome.video_path, completed_at |-> "t1"]

\* lines 749-752
ProjectUpdate(outcome) == [status |-> outcome.status, last_run |-> "t1"]

\* lines 766-778
RunFailure == [status |-> "fail", ai_summary |-> "System Error",
               completed_at |-> "t1"]

DispatchInit ==
    /\ pc = "dispatch"
    /\ RunAtRest
    /\ healed_selectors = <<>>
    /\ healing_history = <<>>
    /\ healing_calls = 0
    /\ page = <<>>
    /\ unit_in \in [method : {"execute_test_background"},
                    raises : BOOLEAN, outcome : Outcomes]
    /\ unit_out = NoCall

\* lines 710-778: run_test returned unit_in.outcome, or raised
Dispatch ==
    /\ pc = "dispatch"
    /\ unit_out' =
         IF unit_in.raises
         THEN [method |-> "execute_test_background",
               run |-> SetFields(run_doc, RunFailure),
               project |-> SetFields(project_doc, [status |-> "fail"])]
         ELSE [method |-> "execute_test_background",
               run |-> SetFields(run_doc, RunUpdate(unit_in.outcome)),
               project |-> SetFields(project_doc,
                                     ProjectUpdate(unit_in.outcome))]
    /\ pc' = "dispatched"
    /\ UNCHANGED <<runVars, action_data, oracle_raw, healed_selectors,
                   healing_history, healing_calls, page, unit_in>>

DispatchNext == Dispatch

SpecDispatch == DispatchInit /\ [][DispatchNext]_vars

(***************************************************************************)
(* The healing history of one worker instance: _cache_healing after each   *)
(* successful healing, get_healing_summary at the end of a run.            *)
(***************************************************************************)
\* healings of one worker instance
MaxHealings == 12

\* line 493: the events the summary reports
summary_window == 10

\* a healing by the aria strategy
AriaHealing == Found(AriaQ("search"), "aria_label", "high")

\* a variant reporting the oldest events
get_healing_summary_oldest(history) ==
    [total_healed |-> Len(history),
     history |-> SubSeq(history, 1,
                        IF Len(history) > summary_window
                        THEN summary_window ELSE Len(history))]

\* lines 488-494: healing_history[-10:]
get_healing_summary(history) ==
    [total_healed |-> Len(history),
     history |-> SubSeq(history,
                        IF Len(history) > summary_window
                        THEN Len(history) - summary_window + 1 ELSE 1,
                        Len(history))]

HistoryInit ==
    /\ pc = "healed"
    /\ RunAtRest
    /\ UnitAtRest

\* lines 470-486: one more selector healed
CacheHealing ==
    /\ pc = "healed"
    /\ healing_calls < MaxHealings
    /\ \E sel \in OriginalSelectors :
         /\ healed_selectors' = cache_healing(healed_selectors, sel, AriaHealing)
         /\ healing_history' =
              Append(healing_history, HistoryEntry(sel, AriaHealing))
    /\ healing_calls' = healing_calls + 1
    /\ unit_in' = NoCall
    /\ unit_out' = NoCall
    /\ UNCHANGED <<pc, runVars, action_data, oracle_raw, page>>

\* lines 488-494 and 1506: the summary of the outcome
GetSummary ==
    /\ pc = "healed"
    /\ unit_out = NoCall
    /\ unit_in' = [method |-> "get_healing_summary"]
    /\ unit_out' = [method |-> "get_healing_summary",
                    summary |-> get_healing_summary(healing_history)]
    /\ UNCHANGED <<pc, runVars, action_data, oracle_raw, healed_selectors,
                   healing_history, healing_calls, page>>

HistoryNext == CacheHealing \/ GetSummary

SpecHistory == HistoryInit /\ [][HistoryNext]_vars

(***************************************************************************)
(* A sequence of detect_navigation calls on one tracker: the tracker       *)
(* starts without a baseline (line 26) and the page moves between calls.   *)
(***************************************************************************)
BaselineInit ==
    /\ pc = "tracker"
    /\ TrackerRunAtRest
    /\ UnitAtRest
    /\ previous_url = NoUrl
    /\ page_url \in Urls
    /\ page_html = PlainHtml

\* the browser is at some URL when the next step calls the tracker
PageMoves ==
    /\ pc = "tracked"
    /\ page_url' \in Urls
    /\ pc' = "tracker"
    /\ UNCHANGED <<ai_enabled, error, execution_log, locals_bound, step_count,
                   action_history, test_failed, verifications_passed,
                   verifications_total, failure_info, failure_captured,
                   action_data, previous_url, page_html, oracle_calls,
                   oracle_always_failed, exec_calls, evidence_captures,
                   context_closes, result, oracle_raw, unitVars>>

BaselineNext == TrackNavigation \/ PageMoves

SpecBaseline == BaselineInit /\ [][BaselineNext]_vars

(***************************************************************************)
(* capture_failure_evidence on its own: the DOM snippet it stores.  A text *)
(* is represented by its length in characters, and None by NoText.         *)
(***************************************************************************)
\* line 1163: the number of characters substring(0, 500) keeps
snippet_limit == 500

NoText == [kind |-> "None", len |-> 0]

Text(n) == [kind |-> "str", len |-> n]

\* String.prototype.substring(0, limit)
Substring(n, limit) == IF n < limit THEN n ELSE limit

\* lengths of the markup of an element or of the body
MarkupLengths == {0, snippet_limit - 1, snippet_limit, snippet_limit + 1,
                  4 * snippet_limit}

\* lengths of the message of an exception; -1 when nothing is thrown
MessageLengths == {-1, 0, 40, snippet_limit + 100}

EvidencePages == [element : MarkupLengths \cup {-1}, body : MarkupLengths]

EvidenceFaults == [screenshot_raises : BOOLEAN, js_throws : MessageLengths,
                   evaluate_raises : MessageLengths]

\* lines 1155-1174: what is left in evidence["dom_snippet"]; pg.element is
\* the length of the outerHTML of the element the selector matches, -1 when
\* it matches none
dom_snippet(selector, pg, faults) ==
    IF faults.screenshot_raises THEN NoText
    ELSE IF selector = "" THEN NoText
    ELSE IF faults.evaluate_raises >= 0
    THEN Text(Len("Error capturing DOM: ") + faults.evaluate_raises)
    ELSE IF faults.js_throws >= 0
    THEN Text(Len("Could not capture DOM: ") + faults.js_throws)
    ELSE IF pg.element >= 0
    THEN Text(Substring(pg.element, snippet_limit))
    ELSE Text(Substring(pg.body, snippet_limit) + Len("... (truncated)"))

EvidenceInit ==
    /\ pc = "evidence"
    /\ RunAtRest
    /\ healed_selectors = <<>>
    /\ healing_history = <<>>
    /\ healing_calls = 0
    /\ page \in EvidencePages
    /\ unit_in \in [method : {"capture_failure_evidence"},
                    selector : {"", "#btn"}, faults : EvidenceFaults]
    /\ unit_out = NoCall

\* lines 1136-1179: one call of capture_failure_evidence
CaptureEvidence ==
    /\ pc = "evidence"
    /\ pc' = "evidence_returned"
    /\ unit_out' = [method |-> "capture_failure_evidence",
                    screenshot |-> ~unit_in.faults.screenshot_raises,
                    dom_snippet |-> dom_snippet(unit_in.selector, page,
                                                unit_in.faults)]
    /\ UNCHANGED <<runVars, action_data, oracle_raw, healed_selectors,
                   healing_history, healing_calls, page, unit_in>>

EvidenceNext == CaptureEvidence

SpecEvidence == EvidenceInit /\ [][EvidenceNext]_vars

(***************************************************************************)
(* Two lookups for one original selector on one engine, as coroutines of   *)
(* one event loop: a task runs from one await to the next without          *)
(* interruption, and between two awaits the other task or the page may     *)
(* move.  unit_out holds each task's position in find_element_with_healing *)
(* and what it returned.                                                   *)
(***************************************************************************)
Tasks == {1, 2}

\* the awaits of lines 150-225 in order: the cached selector's count, the
\* original selector's count and visibility, and the four strategies
Positions == <<"cache", "original", "text", "aria", "testid", "ai">>

NextPosition(pos) ==
    IF pos = "ai" THEN "done"
    ELSE Positions[1 + CHOOSE i \in DOMAIN Positions : Positions[i] = pos]

TaskAt(pos) == [pos |-> pos, found |-> FALSE, strategy_used |-> "None",
                healed_selector |-> NoSelector]

TaskDone(r) == [pos |-> "done", found |-> r.found,
                strategy_used |-> r.strategy_used,
                healed_selector |-> r.healed_selector]

\* lines 189-223: one strategy on the page as it is when the task resumes
Strategy(pos, pg, sel, context, ai) ==
    CASE pos = "text" ->
           IF TextHint(context) # <<>> THEN heal_by_text(pg, TextHint(context))
           ELSE NotFound
      [] pos = "aria" -> heal_by_aria(pg, sel, context)
      [] pos = "testid" -> heal_by_testid(pg, sel)
      [] pos = "ai" ->
           IF ai.on THEN heal_by_ai_vision(pg, ai.answer) ELSE NotFound

ConcurrentInit ==
    /\ pc = "concurrent"
    /\ RunAtRest
    /\ healed_selectors = <<>>
    /\ healing_history = <<>>
    /\ healing_calls = 0
    /\ page \in Pages
    /\ unit_in \in [method : {"find_element_with_healing"},
                    original_selector : OriginalSelectors,
                    context : Contexts, ai : AiModes]
    /\ unit_out = [method |-> "find_element_with_healing",
                   tasks |-> [t \in Tasks |-> TaskAt("cache")]]

\* lines 150-165: the cache is looked up and the cached selector counted
TaskCache(t) ==
    /\ pc = "concurrent"
    /\ unit_out.tasks[t].pos = "cache"
    /\ LET sel == unit_in.original_selector IN
       unit_out' =
         [unit_out EXCEPT !.tasks[t] =
            IF CacheHit(page, sel, healed_selectors)
            THEN TaskDone(Found(healed_selectors[sel].selector,
                                "cached_healing",
                                healed_selectors[sel].confidence))
            ELSE TaskAt("original")]
    /\ UNCHANGED <<pc, runVars, action_data, oracle_raw, healed_selectors,
                   healing_history, healing_calls, page, unit_in>>

\* lines 167-183: the original selector is tried
TaskOriginal(t) ==
    /\ pc = "concurrent"
    /\ unit_out.tasks[t].pos = "original"
    /\ unit_out' =
         [unit_out EXCEPT !.tasks[t] =
            IF FirstVisible(page, unit_in.original_selector)
            THEN TaskDone([NotFound EXCEPT !.found = TRUE,
                                           !.strategy_used = "original"])
            ELSE TaskAt("text")]
    /\ UNCHANGED <<pc, runVars, action_data, oracle_raw, healed_selectors,
                   healing_history, healing_calls, page, unit_in>>

\* lines 189-225: a strategy is awaited; on success the cache and the
\* history are written before the next await
TaskStrategy(t) ==
    /\ pc = "concurrent"
    /\ unit_out.tasks[t].pos \in {"text", "aria", "testid", "ai"}
    /\ LET pos == unit_out.tasks[t].pos
           sel == unit_in.original_selector
           r == Strategy(pos, page, sel, unit_in.context, unit_in.ai)
       IN  IF r.found
           THEN /\ healed_selectors' = cache_healing(healed_selectors, sel, r)
                /\ healing_history' =
                     Append(healing_history, HistoryEntry(sel, r))
                /\ unit_out' = [unit_out EXCEPT !.tasks[t] = TaskDone(r)]
           ELSE /\ unit_out' =
                     [unit_out EXCEPT !.tasks[t] =
                        IF NextPosition(pos) = "done" THEN TaskDone(NotFound)
                        ELSE TaskAt(NextPosition(pos))]
                /\ UNCHANGED <<healed_selectors, healing_history>>
    /\ UNCHANGED <<pc, runVars, action_data, oracle_raw, healing_calls, page,
                   unit_in>>

\* while a task waits the page loses an element
PageLosesElement ==
    /\ pc = "concurrent"
    /\ \E t \in Tasks : unit_out.tasks[t].pos # "done"
    /\ \E i \in DOMAIN page :
         page' = SubSeq(page, 1, i - 1) \o SubSeq(page, i + 1, Len(page))
    /\ UNCHANGED <<pc, runVars, action_data, oracle_raw, healed_selectors,
                   healing_history, healing_calls, unit_in, unit_out>>

ConcurrentNext ==
    \/ \E t \in Tasks : TaskCache(t)
    \/ \E t \in Tasks : TaskOriginal(t)
    \/ \E t \in Tasks : TaskStrategy(t)
    \/ PageLosesElement

SpecConcurrent == ConcurrentInit /\ [][ConcurrentNext]_vars

(***************************************************************************)
(* Properties.                                                             *)
(***************************************************************************)
HasEntry(tag, n) ==
    \E i \in DOMAIN execution_log : execution_log[i] = Entry(tag, n)

StepsWith(tags) ==
    {execution_log[i].n :
        i \in {j \in DOMAIN execution_log : execution_log[j].tag \in tags}}

Steps == 1..(max_steps + 1)

LoopPcs == {"loop", "decide"}

EndPcs == {"after_loop", "closing", "finish", "done", "raised"}

Consulted == oracle_calls' = oracle_calls + 1

\* C1: in every run the oracle is consulted at most 10 times and the step
\* counter never exceeds 10, whatever the oracle answers.
C1_StepCeiling == step_count <= 10 /\ oracle_calls <= 10

C1_Witness ==
    /\ pc = "done"
    /\ step_count = 10
    /\ oracle_calls = 10
    /\ ~HasEntry("complete", 10)

\* C2: when the run is over the status is fail iff an error occurred, an
\* action failed or passed < total; inconclusive iff none of those and
\* total = 0; pass otherwise.
C2_StatusOfEndState ==
    pc \in {"done", "raised"} =>
        result.status =
            IF error # "None" \/ test_failed
               \/ verifications_passed < verifications_total
            THEN "fail"
            ELSE IF verifications_total = 0 THEN "inconclusive"
            ELSE "pass"

\* C3: at most one FailureEvidence is captured per run, it is the evidence
\* of the first failing step, and later failures leave it unchanged.
C3_FirstFailureOnly ==
    /\ [](/\ evidence_captures <= 1
          /\ failure_captured <=> StepsWith({"verify_fail", "failed"}) # {}
          /\ failure_captured =>
               /\ evidence_captures = 1
               /\ failure_info.step = Min(StepsWith({"verify_fail", "failed"})))
    /\ [][/\ failure_captured => failure_captured' /\ failure_info' = failure_info
          /\ ~failure_captured /\ failure_captured' =>
               /\ failure_info'.step = step_count
               /\ failure_info'.action = RunAction(action_data')
               /\ failure_info'.selector = action_data'.selector
               /\ failure_info'.reason # "None"]_vars

C3_Witness ==
    /\ failure_captured
    /\ \E k \in StepsWith({"verify_fail", "failed"}) : k > failure_info.step
    /\ pc = "done"

VerifyFailSteps == StepsWith({"verify_fail"})

\* C4 as stated: after a failed verification at step k < 10, step k+1 is
\* started, the oracle is consulted again and the final status is fail.
C4_ConsultedAgain ==
    pc = "done" =>
        \A k \in VerifyFailSteps :
            k < 10 => /\ step_count > k
                      /\ oracle_calls > k
                      /\ result.status = "fail"

\* C4: after a failed verification at step k < 10 the run is marked failed,
\* the loop goes on to step k+1, where the oracle is consulted again unless
\* capturing the page state of step k+1 raises, and the final status is
\* fail whatever happens in the later steps.
C4_FailedVerificationContinues ==
    /\ [](\A k \in VerifyFailSteps :
            /\ test_failed
            /\ pc = "done" => result.status = "fail"
            /\ k < 10 /\ pc \in EndPcs =>
                 /\ step_count > k
                 /\ \/ oracle_calls > k
                    \/ /\ oracle_calls = k
                       /\ step_count = k + 1
                       /\ HasEntry("step_error", k + 1))
    /\ [][Consulted /\ action_data'.is_dict /\ action_data'.action = "verify"
            /\ verifications_passed' = verifications_passed
          => /\ test_failed'
             /\ pc' = "loop"
             /\ HasEntry("verify_fail", step_count)']_vars

C4_Witness ==
    /\ pc = "done"
    /\ result.status = "fail"
    /\ \E k \in VerifyFailSteps :
         /\ k < 10
         /\ oracle_calls > k
         /\ HasEntry("verify_pass", k + 1)

\* C5: when a non-verify action fails at step k the run is marked failed
\* and the loop ends at step k: no later step, no further oracle call, no
\* entry in the action history for it, and the final status is fail.
C5_ActionFailureEndsLoop ==
    /\ [](\A k \in Steps :
            HasEntry("failed", k) =>
                /\ test_failed
                /\ step_count = k
                /\ oracle_calls = k
                /\ Len(action_history) = k - 1
                /\ pc \in EndPcs
                /\ pc = "done" => result.status = "fail")
    /\ [][Consulted /\ action_data'.is_dict
            /\ action_data'.action \notin {"verify", "complete"}
            /\ exec_calls' = exec_calls + 1
            /\ Len(action_history') = Len(action_history)
            /\ ~HasEntry("step_error", step_count)'
          => /\ HasEntry("failed", step_count)'
             /\ action_history' = action_history
             /\ pc' = "after_loop"]_vars

C5_Witness ==
    /\ pc = "done"
    /\ result.status = "fail"
    /\ \E k \in 2..9 : HasEntry("failed", k) /\ Len(action_history) = k - 1
    /\ action_data.action \in {"click", "type", "press", "navigate", "wait"}

\* C6: if the initial navigation fails the run ends without a decision
\* step: the oracle is never consulted, nothing is executed or verified,
\* the error is recorded and the final status is fail.
C6_NavigationFailureIsFatal ==
    error = "goto error" =>
        /\ step_count = 0
        /\ oracle_calls = 0
        /\ exec_calls = 0
        /\ verifications_total = 0
        /\ action_history = <<>>
        /\ HasEntry("error", 0)
        /\ pc \in {"closing", "finish", "done"}
        /\ pc = "done" => result.status = "fail" /\ result.bug_summary = error

C6_Witness ==
    /\ pc = "done"
    /\ error = "goto error"
    /\ ai_enabled
    /\ result.status = "fail"

ParsesAsJson(content) == JsonLoads(ExtractJson(content))

\* C7: analyze_page_and_get_action never raises; for a response that is not
\* valid JSON after stripping an optional code fence, or for any failure of
\* the call, it returns the action wait with empty selector and value and a
\* reasoning that carries the failure reason.
C7_OracleNeverRaises ==
    /\ pc # "oracle_raised"
    /\ pc = "oracle_returned" =>
         /\ oracle_raw.kind # "content" =>
              action_data = SyntheticWait("AI request failed")
         /\ oracle_raw.kind = "content" /\ ~ParsesAsJson(oracle_raw.content) =>
              action_data = SyntheticWait("AI response was not valid JSON")
         /\ oracle_raw.kind = "content" /\ ParsesAsJson(oracle_raw.content) =>
              action_data = oracle_raw.doc
         /\ oracle_raw.kind = "content"
              /\ oracle_raw.content \in {<<>>, <<"x">>, <<"{}", "x">>,
                                         <<Fence, "x", Fence>>,
                                         <<Fence, "json", "x">>,
                                         <<"json", "{}">>} =>
              /\ action_data.action = "wait"
              /\ action_data.selector = ""
              /\ action_data.value = ""
              /\ action_data.reasoning = "AI response was not valid JSON"
         /\ oracle_raw.kind = "content"
              /\ oracle_raw.content \in {<<"{}">>, <<" ", "{}", " ">>,
                                         <<Fence, "{}", Fence>>,
                                         <<Fence, "json", "{}">>} =>
              action_data = oracle_raw.doc

C7_Witness ==
    /\ pc = "oracle_returned"
    /\ oracle_raw.kind = "content"
    /\ oracle_raw.content = <<Fence, "x", Fence>>
    /\ action_data = SyntheticWait("AI response was not valid JSON")

OracleFailureStep ==
    Consulted /\ IsSynthetic(action_data')

OracleFailureRecovered ==
    OracleFailureStep =>
        /\ exec_calls' = exec_calls + 1
        /\ execution_log' = execution_log
             \o <<Entry("step", step_count), Entry("executed", step_count)>>
        /\ action_history' = Append(action_history, "action")
        /\ test_failed' = test_failed
        /\ failure_captured' = failure_captured
        /\ failure_info' = failure_info
        /\ evidence_captures' = evidence_captures
        /\ pc' = "loop"

NextStepStarts ==
    pc = "loop" /\ step_count < 10 => ENABLED StartStep /\ ~ENABLED LoopExit

\* the state after a step whose oracle call degraded to the synthetic wait
AfterOracleFailure ==
    /\ pc \in {"loop"} \cup EndPcs
    /\ oracle_calls >= 1
    /\ oracle_calls = step_count
    /\ IsSynthetic(action_data)

RecoveredState ==
    AfterOracleFailure =>
        /\ HasEntry("executed", step_count)
        /\ ~HasEntry("failed", step_count)
        /\ ~HasEntry("step_error", step_count)
        /\ Len(action_history) = step_count
        /\ exec_calls = step_count
        /\ failure_captured => failure_info.step < step_count
        /\ test_failed <=> failure_captured
        /\ pc \in EndPcs => step_count = 10

\* C8 as stated: an oracle failure at step k < 10 is recovered, and a run
\* in which every oracle call fails ends after exactly 10 steps with a
\* status other than fail.
C8_EveryCallFails ==
    /\ NextStepStarts
    /\ RecoveredState
    /\ pc = "done" /\ oracle_calls >= 1 /\ oracle_always_failed =>
         step_count = 10 /\ result.status # "fail"

\* C8: an oracle failure at step k < 10 is recovered: the synthetic wait is
\* executed successfully, the run is not marked failed, no evidence is
\* captured and step k+1 is started; a run in which the oracle is consulted
\* in every step that starts and every call fails ends after exactly 10
\* steps with a status other than fail.
C8_OracleFailureRecovered ==
    /\ [](/\ NextStepStarts
          /\ RecoveredState
          /\ pc = "done" /\ oracle_calls >= 1 /\ oracle_always_failed
               /\ oracle_calls = step_count =>
               /\ step_count = 10
               /\ result.status = "inconclusive"
               /\ ~test_failed
               /\ ~failure_captured)
    /\ [][OracleFailureRecovered]_vars

C8_Witness ==
    /\ pc = "done"
    /\ oracle_calls = 10
    /\ oracle_always_failed
    /\ IsSynthetic(action_data)
    /\ step_count = 10
    /\ result.status = "inconclusive"

\* C9: for every in-run failure run_test returns an outcome and raises
\* nothing; an exception raised inside step k is logged and ends the loop
\* at step k, with no later oracle call.
C9_NoRaiseOnInRunFailure ==
    /\ pc = "raised" =>
         /\ error = "None"
         /\ step_count = 0
         /\ oracle_calls = 0
         /\ exec_calls = 0
         /\ ~test_failed
         /\ StepsWith({"step_error", "failed", "verify_fail", "error"}) = {}
    /\ pc = "done" => result.status \in {"pass", "fail", "inconclusive"}
    /\ \A k \in Steps :
         HasEntry("step_error", k) =>
             /\ step_count = k
             /\ oracle_calls <= k
             /\ pc \in EndPcs

C9_Witness ==
    /\ pc = "done"
    /\ \E k \in 2..9 : HasEntry("step_error", k) /\ oracle_calls = k
    /\ result.status \in {"pass", "fail", "inconclusive"}

\* C10: when the oracle returns complete at step k the loop stops at step
\* k: no action is executed for that step, the success entry is logged,
\* nothing is appended to the action history and the oracle is not
\* consulted again.
C10_CompleteStopsLoop ==
    /\ [](\A k \in Steps :
            HasEntry("complete", k) =>
                /\ step_count = k
                /\ oracle_calls = k
                /\ exec_calls = k - 1
                /\ Len(action_history) = k - 1
                /\ pc \in EndPcs)
    /\ [][Consulted /\ action_data'.is_dict /\ action_data'.action = "complete"
          => /\ execution_log' = execution_log
                  \o <<Entry("step", step_count), Entry("complete", step_count)>>
             /\ exec_calls' = exec_calls
             /\ action_history' = action_history
             /\ pc' = "after_loop"]_vars

C10_Witness ==
    /\ pc = "done"
    /\ \E k \in 2..9 : HasEntry("complete", k) /\ oracle_calls = k
    /\ action_data.action = "complete"
    /\ result.status = "pass"

\* C11: a run that performs 10 steps without complete logs the step-limit
\* notice and ends the loop, and the limit alone does not fail the run: with
\* no failed action or verification the status is inconclusive when no
\* verification ran and pass when all of them passed.
C11_StepLimitIsNotFailure ==
    /\ pc = "loop" /\ step_count = 10 => ~ENABLED StartStep /\ ENABLED LoopExit
    /\ pc \in {"closing", "finish", "done"} /\ step_count = 10
         /\ StepsWith({"complete"}) = {} =>
           /\ HasEntry("max_steps", 10)
           /\ pc = "done" /\ StepsWith({"failed", "verify_fail"}) = {} =>
                /\ verifications_passed = verifications_total
                /\ result.status = IF verifications_total = 0
                                   THEN "inconclusive" ELSE "pass"

C11_Witness ==
    /\ pc = "done"
    /\ step_count = 10
    /\ oracle_calls = 10
    /\ StepsWith({"complete", "step_error"}) = {}
    /\ HasEntry("max_steps", 10)
    /\ verifications_total > 0
    /\ result.status = "pass"

\* C12: on every path out of the run the browser context is closed exactly
\* once, after the last step and before the status and the outcome are
\* computed.
C12_ContextClosedOnce ==
    /\ [](/\ pc \in {"start", "loop", "decide", "after_loop", "closing"} =>
               context_closes = 0 /\ result = NoResult
          /\ pc \in {"finish", "done", "raised"} => context_closes = 1
          /\ pc = "finish" => result = NoResult)
    /\ [][/\ context_closes' # context_closes =>
               pc = "closing" /\ context_closes' = context_closes + 1
          /\ context_closes = 1 =>
               /\ step_count' = step_count
               /\ oracle_calls' = oracle_calls
               /\ exec_calls' = exec_calls
               /\ execution_log' = execution_log]_vars

C12_Witness ==
    /\ pc = "done"
    /\ error = "title error"
    /\ context_closes = 1
    /\ result.status = "fail"

\* C13: when the selector of a requested action yields no usable element,
\* find_element_with_healing is invoked for it before the step is reported
\* as an action failure.
C13_HealingBeforeFailure ==
    \A k \in Steps :
        HasEntry("failed", k) /\ action_data.selector # "" =>
            healing_calls >= 1

Looked == unit_out.method = "find_element_with_healing"

LookupStep == healing_calls' = healing_calls + 1

\* C14: once S was healed to H, a later lookup for S made while H still
\* matches at least one element returns found with healed selector H and
\* the cached confidence straight from the cache: the original selector is
\* not checked and no healing strategy is attempted.
C14_CacheShortCircuits ==
    [][LookupStep =>
        LET S == unit_in'.original_selector IN
        S \in DOMAIN healed_selectors
          /\ Locate(page, healed_selectors[S].selector) # <<>> =>
            /\ unit_out'.result.found
            /\ unit_out'.result.healed
            /\ unit_out'.result.healed_selector = healed_selectors[S].selector
            /\ unit_out'.result.confidence = healed_selectors[S].confidence
            /\ unit_out'.result.strategy_used = "cached_healing"
            /\ unit_out'.tried = <<"cache">>
            /\ healed_selectors' = healed_selectors
            /\ healing_history' = healing_history]_vars

C14_Witness ==
    /\ Looked
    /\ unit_in.cached
    /\ unit_out.result.strategy_used = "cached_healing"
    /\ unit_out.tried = <<"cache">>
    /\ ~unit_out.result.element.visible
    /\ Len(healing_history) = 1

SearchIconExposed ==
    \E i \in DOMAIN page :
        page[i].aria = <<"search", "icon">> /\ page[i].visible

ReasoningSaysSearch ==
    \E i \in DOMAIN unit_in.context.reasoning :
        Lower(unit_in.context.reasoning[i]) = "search"

\* a lookup whose original selector fails and has no cache entry, made with
\* a reasoning that contains the word search
SearchLookup ==
    /\ Looked
    /\ ~unit_in.cached
    /\ ~FirstVisible(page, unit_in.original_selector)
    /\ ReasoningSaysSearch

HealedByAria ==
    LET S == unit_in.original_selector IN
    /\ unit_out.result.found
    /\ unit_out.result.healed
    /\ unit_out.result.strategy_used = "aria_label"
    /\ unit_out.result.confidence = "high"
    /\ S \in DOMAIN healed_selectors
    /\ healed_selectors[S].selector = unit_out.result.healed_selector
    /\ healed_selectors[S].confidence = "high"

\* C15 as stated: such a lookup against a page that exposes a visible
\* element with aria-label "search icon" succeeds with strategy aria_label,
\* confidence high, and caches the healed selector.
C15_AriaHealsSearch ==
    SearchLookup /\ SearchIconExposed => HealedByAria

RECURSIVE HintsBefore(_, _)
HintsBefore(hints, h) ==
    IF hints = <<>> \/ Head(hints) = h THEN <<>>
    ELSE <<Head(hints)>> \o HintsBefore(Tail(hints), h)

\* C15: such a lookup succeeds with strategy aria_label, confidence high,
\* and caches the healed selector when the first element whose aria-label
\* contains search is visible, the text-content strategy finds nothing for
\* the keywords of the reasoning, and no hint taken from the original
\* selector ahead of search resolves by aria-label or role.
C15_AriaHealsSearchWhenFirst ==
    SearchLookup
      /\ FirstVisible(page, AriaQ("search"))
      /\ ~heal_by_text(page, TextHint(unit_in.context)).found
      /\ ~HealByHints(page, HintsBefore(SelectorHints(unit_in.original_selector),
                                        "search")).found
    => HealedByAria /\ unit_out.result.healed_selector = AriaQ("search")

C15_Witness ==
    /\ SearchLookup
    /\ SearchIconExposed
    /\ unit_in.context.reasoning = <<"Click", "search", "icon">>
    /\ unit_out.result.strategy_used = "aria_label"
    /\ unit_out.result.healed_selector = AriaQ("search")
    /\ unit_out.tried = <<"original", "text_content", "aria">>
    /\ Len(page) = 2

Verified == pc = "verification_returned"

\* the selector lookup of line 995 raised
LookupRaised ==
    /\ unit_in.verification.selector # NoSelector
    /\ "selector" \in unit_in.faults.lookup_raises

LocatorResolved ==
    ResolveLocator(page, unit_in.verification, unit_in.faults).locator
        # NoSelector

\* reading the state of the element raised
ReadRaised ==
    /\ unit_in.verification.verify_type \in VerifyTypes \ {"url_contains"}
    /\ LocatorResolved
    /\ \/ unit_in.faults.read_raises
       \/ /\ unit_in.faults.vanishes
          /\ unit_in.verification.verify_type
               \in {"enabled", "text_contains", "text_equals"}

\* C16 as stated: a verification never raises, and any exception during the
\* locator lookup or while reading the element state gives a result with
\* passed false and a diagnostic reason, for every verify_type.
C16_ExceptionMeansNotPassed ==
    /\ pc # "verification_raised"
    /\ Verified /\ (LookupRaised \/ ReadRaised) =>
         ~unit_out.result.passed /\ unit_out.result.reason # ""

\* C16: a verification never raises and always returns a result with a
\* diagnostic reason; an exception while reading the element state gives
\* passed false for every verify_type but not_visible, where it gives
\* passed true; an exception in the selector lookup discards that locator
\* only, so the result is passed false when no fallback locator is found
\* and the verify_type is not url_contains.
C16_VerificationNeverRaises ==
    /\ pc # "verification_raised"
    /\ Verified =>
         /\ unit_out.result.reason # ""
         /\ ReadRaised =>
              unit_out.result.passed
                = (unit_in.verification.verify_type = "not_visible")
         /\ LookupRaised /\ ~LocatorResolved
              /\ unit_in.verification.verify_type # "url_contains" =>
              /\ ~unit_out.result.passed
              /\ unit_out.result.reason = "Element not found"
              /\ unit_out.result.confidence = "low"

C16_Witness ==
    /\ Verified
    /\ ReadRaised
    /\ unit_in.verification.verify_type = "exists"
    /\ unit_out.result.reason = "Verification error"
    /\ ~unit_out.result.passed

UrlVerification == Verified /\ unit_in.verification.verify_type = "url_contains"

UrlTestHolds ==
    /\ unit_out.result.passed
         = ContainsLower(unit_in.url, unit_in.verification.expected)
    /\ unit_out.result.confidence = "high"
    /\ unit_in.verification.expected = "thank-you"
         /\ unit_in.url = <<"https://x.com/", "thank-you">> =>
         unit_out.result.passed

\* C17 as stated: url_contains bypasses element resolution entirely,
\* whether or not a selector is given: no lookup is made, selector_used is
\* not altered, passed is the case-insensitive substring test against the
\* current URL and confidence is high.
C17_UrlContainsBypassesLookup ==
    UrlVerification =>
        /\ unit_out.lookups = 0
        /\ unit_out.result.selector_used = unit_in.verification.selector
        /\ UrlTestHolds

\* C17: for url_contains passed is the case-insensitive substring test of
\* expected against the current URL and confidence is high, whatever the
\* element resolution finds; no lookup is made and selector_used is not
\* altered when no selector is given, while with a selector the lookups are
\* made first and selector_used names the fallback locator that matched.
C17_UrlContainsIgnoresLocator ==
    UrlVerification =>
        /\ UrlTestHolds
        /\ unit_in.verification.selector = NoSelector =>
             /\ unit_out.lookups = 0
             /\ unit_out.result.selector_used = NoSelector
        /\ unit_in.verification.selector # NoSelector =>
             /\ unit_out.lookups >= 1
             /\ unit_out.result.selector_used
                  \in {unit_in.verification.selector,
                       TextQ(unit_in.verification.expected),
                       AriaQ(unit_in.verification.expected)}
             /\ unit_out.result.selector_used # unit_in.verification.selector =>
                  /\ Locate(page, unit_out.result.selector_used) # <<>>
                  /\ unit_out.lookups >= 2

C17_Witness ==
    /\ UrlVerification
    /\ unit_in.verification.selector # NoSelector
    /\ unit_in.verification.expected = "Thank-You"
    /\ unit_in.url = <<"https://x.com/", "thank-you">>
    /\ unit_out.result.passed
    /\ unit_out.result.confidence = "high"
    /\ unit_out.lookups = 3

\* C18: a not_visible verification passes whenever the target element is
\* absent from the page, and when the first match exists but is not
\* visible.
C18_AbsentCountsAsNotVisible ==
    Verified /\ unit_in.verification.verify_type = "not_visible"
      /\ unit_in.verification.selector # NoSelector
      /\ unit_in.faults.lookup_raises = {}
      /\ ~unit_in.faults.read_raises =>
        LET m == Locate(page, unit_in.verification.selector) IN
        /\ m = <<>> => unit_out.result.passed
        /\ m # <<>> /\ ~m[1].visible => unit_out.result.passed

Executed == pc = "action_returned"

\* C19 as stated: execute_action never propagates an exception, and any
\* exception raised while resolving a selector or actuating makes it return
\* false, for any action kind.
C19_AnyExceptionMeansFalse ==
    /\ pc # "action_raised"
    /\ Executed /\ unit_out.raised_inside > 0 => unit_out.value = "False"

\* C19: execute_action never propagates an exception: any exception that
\* reaches its outer handler makes it return false, for any action kind,
\* while an exception absorbed by an inner handler lets it go on.
C19_NeverPropagates ==
    /\ pc # "action_raised"
    /\ Executed =>
         /\ unit_out.value \in {"True", "False", "dict"}
         /\ unit_out.escaped => unit_out.value = "False"
         /\ unit_out.escaped => unit_out.raised_inside > 0
         /\ healing_calls = 0

C19_Witness ==
    /\ Executed
    /\ unit_in.action_data.action = "click"
    /\ unit_in.action_data.selector = TextQ("Search")
    /\ unit_out.escaped
    /\ unit_out.raised_inside > 1
    /\ unit_out.value = "False"

\* C20: after a click that succeeded, a timeout of the wait for the
\* DOM-content-loaded state is not fatal: execute_action returns true.
C20_DomWaitTimeoutNotFatal ==
    Executed /\ unit_in.action_data.action = "click"
      /\ ClickChain(page, unit_in.action_data.selector, unit_in.faults).exc
           = "none"
      /\ unit_in.faults.wait_raises =>
        unit_out.value = "True"

NavigationDetected == unit_out.method = "detect_navigation"

\* C21: with a baseline set, detect_navigation classifies by the first
\* difference in the order host, path, query or fragment: another host is a
\* navigation described as a domain change; the same host and another path
\* is a navigation described as a path change; only the query or the
\* fragment differing is no navigation, with the params-changed description;
\* no difference gives (false, "").
C21_NavigationClassified ==
    (NavigationDetected /\ unit_in.previous_url # NoUrl) =>
        LET p == unit_in.previous_url
            c == unit_in.current_url
        IN  /\ p.netloc # c.netloc =>
                  unit_out.navigated /\ unit_out.desc = "Domain changed"
            /\ (p.netloc = c.netloc /\ p.path # c.path) =>
                  unit_out.navigated /\ unit_out.desc = "Path changed"
            /\ (p.netloc = c.netloc /\ p.path = c.path
                  /\ (p.query # c.query \/ p.fragment # c.fragment)) =>
                  /\ ~unit_out.navigated
                  /\ unit_out.desc = "URL params changed (possible state change)"
            /\ p = c => ~unit_out.navigated /\ unit_out.desc = ""

\* a call where the host, the path and the query all differ
C21_Witness ==
    /\ NavigationDetected
    /\ unit_in.previous_url # NoUrl
    /\ unit_in.previous_url.netloc # unit_in.current_url.netloc
    /\ unit_in.previous_url.path # unit_in.current_url.path
    /\ unit_in.previous_url.query # unit_in.current_url.query
    /\ unit_out.desc = "Domain changed"

SuccessDetected == unit_out.method = "detect_success_message"

Returned23 == pc = "done"

FailedWithEvidence ==
    Returned23 /\ result.status = "fail" /\ result.failure_info # NoFailure

ExplanationFailed == unit_out.reply \in {"raise", "no_content"}

\* C23: whenever the outcome is fail and failure evidence was captured, the
\* plain-language explanation is requested from the oracle once, after the
\* loop and not before; if the request fails the outcome's explanation is the
\* captured technical reason, and run_test still returns the outcome.
C23_ExplanationBestEffort ==
    /\ pc \in LoopPcs \cup {"start", "after_loop", "closing", "finish"} =>
          unit_out = NoCall
    /\ FailedWithEvidence =>
          /\ unit_out.method = "explain_failure_in_plain_english"
          /\ unit_out.requests = 1
          /\ ExplanationFailed =>
               /\ result.plain_english_explanation = result.failure_info.reason
               /\ result.plain_english_explanation # "None"
    /\ (Returned23 /\ ~FailedWithEvidence) => unit_out = NoCall
    /\ failure_captured => pc # "raised"

\* a failed run with evidence whose explanation request raised
C23_Witness ==
    /\ FailedWithEvidence
    /\ unit_out.reply = "raise"
    /\ result.plain_english_explanation = "Failed to execute"

\* C24: every outcome with status fail carries a non-empty bug summary,
\* whichever failure produced it and whether or not the explanation request
\* succeeded; an outcome with status pass carries none.
C24_FailHasBugSummary ==
    Returned23 =>
        /\ result.status = "fail" => result.bug_summary \notin {"None", ""}
        /\ result.status = "pass" => result.bug_summary = "None"

\* a failed verification whose explanation came back blank
C24_Witness ==
    /\ Returned23
    /\ result.status = "fail"
    /\ result.failure_info # NoFailure
    /\ unit_out.reply = "blank"
    /\ result.bug_summary = "Verification failed"

ExecutedSteps == StepsWith({"executed"})

ActionEntries == {i \in DOMAIN action_history : action_history[i] = "action"}

\* C25: the action history starts empty, holds one entry for each
\* successfully executed action other than a verification, none for a failed
\* action or for complete, and the history passed to the oracle at step k
\* has at most k-1 entries.
C25_HistoryAppendOnly ==
    /\ pc = "start" => action_history = <<>>
    /\ Cardinality(ActionEntries) = Cardinality(ExecutedSteps)
    /\ pc = "decide" => Len(action_history) <= step_count - 1

Dispatched == pc = "dispatched" /\ ~unit_in.raises

Persisted(field) ==
    /\ field \in DOMAIN unit_out.run
    /\ unit_out.run[field] = unit_in.outcome[field]

\* C26: when run_test returns, the dispatcher writes to the run record the
\* outcome's status, duration, summaries, video reference, verification
\* counts, failure info and healing summary, and sets the project's status
\* to the outcome's status.
C26_OutcomePersisted ==
    Dispatched =>
        /\ \A field \in {"status", "duration_ms", "ai_summary", "bug_summary",
                         "video_path", "verifications", "failure_info",
                         "healing_summary"} : Persisted(field)
        /\ unit_out.project.status = unit_in.outcome.status

StrategyOrder ==
    <<"cache", "original", "text_content", "aria", "data_testid", "ai_vision">>

\* the strategy a value of strategy_used belongs to
StrategyOf(used) ==
    CASE used = "cached_healing" -> "cache"
      [] used \in {"aria_label", "role"} -> "aria"
      [] OTHER -> used

\* what each strategy, taken alone, finds on the page
Attempted(name, pg, sel, context, ai, cache) ==
    CASE name = "cache" ->
           IF CacheHit(pg, sel, cache)
           THEN Found(cache[sel].selector, "cached_healing",
                      cache[sel].confidence)
           ELSE NotFound
      [] name = "original" ->
           IF FirstVisible(pg, sel)
           THEN [NotFound EXCEPT !.found = TRUE] ELSE NotFound
      [] name = "text_content" ->
           IF TextHint(context) # <<>>
           THEN heal_by_text(pg, TextHint(context)) ELSE NotFound
      [] name = "aria" -> heal_by_aria(pg, sel, context)
      [] name = "data_testid" -> heal_by_testid(pg, sel)
      [] name = "ai_vision" ->
           IF ai.on THEN heal_by_ai_vision(pg, ai.answer) ELSE NotFound

Position(name) == CHOOSE i \in DOMAIN StrategyOrder : StrategyOrder[i] = name

C28_HistoryBounded ==
    /\ Len(healing_history) <= 10
    /\ unit_out.method = "get_healing_summary" =>
         \A i \in DOMAIN unit_out.summary.history :
            unit_out.summary.history[i] =
              healing_history[Len(healing_history)
                                - Len(unit_out.summary.history) + i]

Summarised == unit_out.method = "get_healing_summary"

\* C28, amended: the healing summary reports at most the 10 most recent
\* healings, in the order they happened, and counts all of them; the
\* recorded history itself keeps every healing of the worker instance.
C28_SummaryBounded ==
    /\ Len(healing_history) = healing_calls
    /\ Summarised =>
         LET h == unit_out.summary.history
             n == Len(healing_history)
         IN  /\ Len(h) <= 10
             /\ Len(h) = IF n > 10 THEN 10 ELSE n
             /\ \A i \in DOMAIN h : h[i] = healing_history[n - Len(h) + i]
             /\ unit_out.summary.total_healed = n

\* a summary taken after more than 10 healings, of two selectors in turn
C28_Witness ==
    /\ Summarised
    /\ Len(healing_history) > 10
    /\ Len(unit_out.summary.history) = 10
    /\ healing_history[1].original # healing_history[11].original
    /\ unit_out.summary.history[10] = healing_history[Len(healing_history)]

WithSelector == Verified /\ unit_in.verification.selector # NoSelector

\* what each step of the resolution finds on the page, taken alone
SelectorMatched ==
    /\ "selector" \notin unit_in.faults.lookup_raises
    /\ Locate(page, unit_in.verification.selector) # <<>>

TextMatched ==
    /\ unit_in.verification.expected # ""
    /\ "text" \notin unit_in.faults.lookup_raises
    /\ Locate(page, TextQ(unit_in.verification.expected)) # <<>>

AriaMatched ==
    /\ unit_in.verification.expected # ""
    /\ "aria" \notin unit_in.faults.lookup_raises
    /\ Locate(page, AriaQ(unit_in.verification.expected)) # <<>>

\* the locator the order selector, text, aria-label resolves to
ResolvedTo ==
    IF SelectorMatched THEN unit_in.verification.selector
    ELSE IF TextMatched THEN TextQ(unit_in.verification.expected)
    ELSE IF AriaMatched THEN AriaQ(unit_in.verification.expected)
    ELSE NoSelector

ElementRead ==
    /\ unit_in.verification.verify_type # "url_contains"
    /\ ~(unit_in.verification.verify_type = "exists"
           /\ unit_in.faults.read_raises)

TextClick ==
    /\ Executed
    /\ ExecAction(unit_in.action_data) = "click"
    /\ unit_in.action_data.selector.kind = "text"

\* the targets of a click on a text selector, in the stated order: the text
\* matches in document order, the derived fallback selectors, the role
\* button and the role link by name, the first match of the text
TextTargets ==
    LET m == Locate(page, unit_in.action_data.selector) IN
    [i \in DOMAIN m |-> <<"text_match", i>>]
    \o [i \in DOMAIN click_fallbacks(unit_in.action_data.selector.arg) |->
           <<"fallback", i>>]
    \o <<<<"role_button", 1>>, <<"role_link", 1>>, <<"first_match", 1>>>>

Clicked(i) == unit_out.trace[i].outcome = "ok"

Tried(i) == unit_out.trace[i].outcome # "skip"

\* the chain goes through the targets in order, leaves none out, moves on
\* after an attempt that raised or found nothing to click, and stops at the
\* first click that succeeds
ChainInOrder ==
    LET t == unit_out.trace IN
    /\ Len(t) >= 1 /\ Len(t) <= Len(TextTargets)
    /\ \A i \in DOMAIN t : <<t[i].target, t[i].index>> = TextTargets[i]
    /\ \A i \in DOMAIN t : Clicked(i) => i = Len(t)
    /\ Len(t) < Len(TextTargets) => Clicked(Len(t))
    /\ Cardinality({i \in DOMAIN t : Clicked(i)}) <= 1
    /\ \A i \in DOMAIN t :
          (t[i].target = "text_match" /\ Tried(i)) =>
              Locate(page, unit_in.action_data.selector)[t[i].index].visible
    /\ (\A i \in DOMAIN t : ~Clicked(i)) => unit_out.value = "False"
    /\ unit_out.actuations = Cardinality({i \in DOMAIN t : Tried(i)})

\* C30 as stated: a click on a text selector tries, in this order, the first
\* visible text match, each derived fallback selector, the role button and
\* the role link by name, and the first match whatever its visibility; an
\* exception in one attempt moves on to the next, and the chain stops at the
\* first successful click, so that at most one click is performed.
C30_FirstVisibleThenFallbacks ==
    TextClick =>
        /\ ChainInOrder
        /\ Cardinality({i \in DOMAIN unit_out.trace :
                          unit_out.trace[i].target = "text_match" /\ Tried(i)})
             <= 1

\* C30, amended: a click on a text selector tries, in this order, every
\* visible text match in document order, each derived fallback selector, the
\* role button and the role link by name, and the first match whatever its
\* visibility; an exception in one attempt moves on to the next, and the
\* chain stops at the first successful click, so that at most one click is
\* performed.
C30_ClickChainInOrder == TextClick => ChainInOrder

\* the click on the first visible match raises and the second visible match
\* is clicked
C30_Witness ==
    /\ TextClick
    /\ Len(unit_out.trace) = 2
    /\ unit_out.trace[1] = TargetAttempt("text_match", 1, "raise")
    /\ unit_out.trace[2] = TargetAttempt("text_match", 2, "ok")
    /\ unit_out.value = "True"

\* the last call of detect_navigation has returned
NavigationReturned ==
    /\ pc \in {"tracked", "tracker"}
    /\ unit_out # NoCall
    /\ unit_out.method = "detect_navigation"

SameLocation(a, b) ==
    /\ a.netloc = b.netloc
    /\ a.path = b.path
    /\ a.query = b.query
    /\ a.fragment = b.fragment

\* C31: the first call of detect_navigation records the baseline and returns
\* (false, ""); after any sequence of calls the baseline's host, path, query
\* and fragment are those of the last URL passed.
C31_BaselineIsLastUrl ==
    NavigationReturned =>
        /\ SameLocation(previous_url, unit_in.current_url)
        /\ unit_in.previous_url = NoUrl =>
               unit_out.navigated = FALSE /\ unit_out.desc = ""

\* a later call saw only the query change and moved the baseline
C31_Witness ==
    /\ NavigationReturned
    /\ unit_in.previous_url # NoUrl
    /\ unit_in.previous_url.netloc = unit_in.current_url.netloc
    /\ unit_in.previous_url.path = unit_in.current_url.path
    /\ unit_in.previous_url.query # unit_in.current_url.query
    /\ unit_out.desc = "URL params changed (possible state change)"
    /\ previous_url = unit_in.current_url

\* C32: the DOM snippet of captured failure evidence is a string of at most
\* 500 characters, whether the selector matched an element, matched nothing
\* (body fallback) or the capture raised an error.
C32_DomSnippetBounded ==
    (pc = "evidence_returned" /\ unit_out.dom_snippet.kind = "str") =>
        unit_out.dom_snippet.len <= snippet_limit

\* what detect_navigation and detect_success_message can report
NavigationReports ==
    {detect_navigation(p, u) : p \in {NoUrl, TargetUrl},
                               u \in {TargetUrl, ThanksUrl,
                                      [TargetUrl EXCEPT !.netloc = "y.com"],
                                      [TargetUrl EXCEPT !.query = "q=1"]}}

SuccessReports == {detect_success_message(h) : h \in Documents}

\* a step has just run its detectors: the page state was captured
DetectorsRan ==
    /\ pc = "loop"
    /\ step_count' = step_count + 1
    /\ execution_log' # Append(execution_log, Entry("step_error", step_count'))

LatestRecord(sel) ==
    CHOOSE i \in DOMAIN healing_history :
        /\ healing_history[i].original = sel
        /\ \A j \in DOMAIN healing_history :
             healing_history[j].original = sel => j <= i

\* C34: when two lookups for one original selector interleave at every
\* await, each cache write and its history record are one atomic step: the
\* cache holds one entry per healed selector, and it is the healed selector
\* of the latest history record of that original selector.
C34_CacheMatchesLatestRecord ==
    pc = "concurrent" =>
        /\ DOMAIN healed_selectors =
             {healing_history[i].original : i \in DOMAIN healing_history}
        /\ \A sel \in DOMAIN healed_selectors :
             healed_selectors[sel].selector =
                 healing_history[LatestRecord(sel)].healed

\* both tasks missed the cache and healed the same selector independently,
\* to different selectors
C34_Witness ==
    /\ pc = "concurrent"
    /\ \A t \in Tasks :
         /\ unit_out.tasks[t].pos = "done"
         /\ unit_out.tasks[t].found
         /\ unit_out.tasks[t].strategy_used \notin {"cached_healing", "original"}
    /\ Len(healing_history) = 2
    /\ healing_history[1].healed # healing_history[2].healed

\* the strategies whose success is a healing
HealingStrategies ==
    {"text_content", "aria_label", "role", "data_testid", "ai_vision"}

\* the step is a lookup that healed its selector
HealedStep ==
    /\ healing_calls' = healing_calls + 1
    /\ unit_out'.result.found
    /\ unit_out'.result.strategy_used \in HealingStrategies

\* C35: the healing cache is changed only by a successful healing through
\* the text, aria/role, data-testid or visual strategy, which sets or
\* overwrites the entry of that original selector alone and appends one
\* history record; a cache hit, a success of the original selector and a
\* lookup where every strategy fails leave the cache and the history
\* unchanged, and no entry is ever removed.
C35_CacheFrame ==
    [][IF HealedStep
       THEN LET sel == unit_in'.original_selector IN
            /\ DOMAIN healed_selectors' = DOMAIN healed_selectors \cup {sel}
            /\ \A s \in DOMAIN healed_selectors :
                 s # sel => healed_selectors'[s] = healed_selectors[s]
            /\ healed_selectors'[sel].selector =
                 unit_out'.result.healed_selector
            /\ healing_history' =
                 Append(healing_history,
                        [original |-> sel,
                         healed |-> unit_out'.result.healed_selector,
                         strategy |-> unit_out'.result.strategy_used])
       ELSE /\ healed_selectors' = healed_selectors
            /\ healing_history' = healing_history]_vars

\* a second original selector was healed and the entry of the first is
\* still in the cache
C35_Witness ==
    /\ pc = "healing"
    /\ healing_calls = 2
    /\ Cardinality(DOMAIN healed_selectors) = 2
    /\ Len(healing_history) = 2
    /\ unit_out.result.strategy_used \in HealingStrategies

\* the loop of the run is over
LoopOver == pc \in {"after_loop", "closing", "finish", "done", "raised"}

\* C36: at the end of a run failure evidence has been captured iff some
\* action or verification failed, fewer verifications passed than ran only
\* if the failed flag is set, and an outcome with status fail has no failure
\* evidence only when the failure is a navigation or setup error.
C36_EvidenceIffFailed ==
    /\ LoopOver =>
         /\ failure_captured <=> test_failed
         /\ test_failed <=> StepsWith({"verify_fail", "failed"}) # {}
         /\ verifications_passed < verifications_total => test_failed
    /\ (pc = "done" /\ result.status = "fail"
          /\ result.failure_info = NoFailure) => error # "None"

\* a run whose verification failed ends as fail with the evidence of it
C36_Witness ==
    /\ pc = "done"
    /\ result.status = "fail"
    /\ error = "None"
    /\ test_failed
    /\ verifications_passed < verifications_total
    /\ result.failure_info # NoFailure
    /\ result.failure_info.action = "verify"

\* the run returned after a step exception ended its loop, and no action
\* or verification had failed
EndedByStepError ==
    /\ pc = "done"
    /\ error = "None"
    /\ StepsWith({"step_error"}) # {}
    /\ StepsWith({"failed", "verify_fail"}) = {}

\* C37: an exception raised inside a step does not by itself fail the run:
\* when the loop was ended by a step exception and no action or verification
\* failed before it, the status is inconclusive if no verification ran and
\* pass if every verification run before the exception passed, and no
\* failure evidence is captured.
C37_StepErrorIsNotFailure ==
    EndedByStepError =>
        /\ verifications_passed = verifications_total
        /\ result.status = IF verifications_total = 0 THEN "inconclusive"
                           ELSE "pass"
        /\ result.failure_info = NoFailure
        /\ evidence_captures = 0
        /\ ~failure_captured

\* a verification passed, the next step raised, and the run passes
C37_Witness ==
    /\ EndedByStepError
    /\ verifications_total > 0
    /\ result.status = "pass"

\* the notice of lines 1404-1405 is in the log
LimitNoticed == StepsWith({"max_steps"}) # {}

\* C38: the maximum-step-limit notice is in the execution log iff step 10
\* was started, however step 10 ended: after a complete at step 10, an
\* action failure or an exception at step 10 as well.
C38_NoticeIffTenthStep ==
    /\ pc \in {"closing", "finish", "done", "raised"} =>
         (LimitNoticed <=> step_count = max_steps)
    /\ pc \in {"start", "loop", "decide", "after_loop"} => ~LimitNoticed

\* the oracle answered complete at step 10 and the notice is in the log
C38_Witness ==
    /\ pc = "done"
    /\ step_count = 10
    /\ HasEntry("complete", 10)
    /\ HasEntry("max_steps", 10)

\* the oracle's answer of the current step has been acted on
Answered(action) ==
    /\ pc # "decide"
    /\ HasEntry("step", step_count)
    /\ action_data.is_dict
    /\ action_data.action = action

\* an action outside the seven kinds fails the step and the run
UnknownActionFails ==
    Answered("bogus") =>
        /\ exec_calls > 0
        /\ HasEntry("failed", step_count)
        /\ test_failed
        /\ failure_captured
        /\ pc \in EndPcs
        /\ pc = "done" => result.status = "fail"

\* C39 as stated: an action outside the seven kinds is executed, returns
\* false and fails the run with evidence captured; a response without an
\* action field is executed as a wait and counted as a success.
C39_AbsentActionSucceeds ==
    /\ UnknownActionFails
    /\ Answered("absent") =>
         HasEntry("executed", step_count) /\ ~HasEntry("failed", step_count)

\* C39: an action outside the seven kinds is executed, returns false and
\* fails the run with evidence captured; a response without an action field
\* is executed as a wait, which is a success when the response has no
\* selector and succeeds or fails like any wait for a selector when it has.
C39_AbsentActionIsWait ==
    /\ UnknownActionFails
    /\ Answered("absent") =>
         /\ exec_calls > 0
         /\ HasEntry("executed", step_count) # HasEntry("failed", step_count)
         /\ action_data.selector = "" => HasEntry("executed", step_count)

\* a response without an action but with a selector waited for the selector
\* in vain: the step failed
C39_Witness ==
    /\ Answered("absent")
    /\ action_data.selector = "#btn"
    /\ HasEntry("failed", step_count)
    /\ pc = "done"
    /\ result.status = "fail"
    /\ result.failure_info.action = "unknown"

\* C40: in every verification result passed implies a confidence of medium
\* or high: a result of low confidence (no locator resolved, or an
\* unexpected exception) has not passed.
C40_PassedIsNotLowConfidence ==
    (pc = "verification_returned" /\ unit_out.result.passed) =>
        unit_out.result.confidence \in {"medium", "high"}

\* the read of a not_visible verification raised on a locator found by a
\* fallback: the result passed with medium confidence
C40_Witness ==
    /\ pc = "verification_returned"
    /\ unit_in.verification.verify_type = "not_visible"
    /\ unit_in.faults.read_raises
    /\ unit_out.result.passed
    /\ unit_out.result.confidence = "medium"

====
